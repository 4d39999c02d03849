----------------------------- MODULE GraphColour -----------------------------
(***************************************************************************)
(* ElmerGraphColour (fem/src/MeshUtils.F90): the threads of an OpenMP      *)
(* region colour the elements of a mesh, so that elements of one colour    *)
(* have no node in common and may be assembled at the same time without    *)
(* locks.                                                                  *)
(*                                                                         *)
(* In a round every thread goes through its share of the uncoloured        *)
(* vertices: it reads the colours of the neighbours one by one, marks them *)
(* as forbidden, and takes the smallest colour that is not.  The others do *)
(* the same at the same time, so neighbours may end up with one colour.    *)
(* After a barrier the threads collect those vertices, the later one of    *)
(* each pair, for the next round.  When only few are left, one thread      *)
(* colours them alone.                                                     *)
(*                                                                         *)
(* A loop is shared in contiguous blocks (the static schedule that the     *)
(* compilers choose for a loop without a SCHEDULE clause).  So the lists   *)
(* of vertices are always ascending, and are modelled as sets.             *)
(***************************************************************************)
EXTENDS Integers, Sequences, FiniteSets

CONSTANTS
    GraphSize,        \* gn, the number of vertices
    Adjacent,         \* Adjacent[v]: the neighbours of v, Graph % ind(ptr(v) : ptr(v+1)-1)
    Threads,          \* nthr
    VertexPerThread   \* VERTEX_PER_THREAD, 100 in the code

Vertex == 1 .. GraphSize
Thread == 1 .. Threads

Neighbours(v) == {Adjacent[v][i] : i \in DOMAIN Adjacent[v]}

\* dualmaxdeg, the largest number of neighbours.
MaxDegree == CHOOSE d \in {Len(Adjacent[v]) : v \in Vertex} :
                 \A v \in Vertex : Len(Adjacent[v]) <= d

\* The dual graph of a mesh: elements are neighbours if they share a node.
ASSUME GraphAssumption ==
    /\ GraphSize \in Nat \ {0}
    /\ Adjacent \in [Vertex -> Seq(Vertex)]
    /\ \A v \in Vertex : /\ v \notin Neighbours(v)
                         /\ \A w \in Neighbours(v) : v \in Neighbours(w)
                         /\ Cardinality(Neighbours(v)) = Len(Adjacent[v])

\* Each vertex has at most one thread attached to it.
ASSUME ThreadAssumption == Threads \in Vertex /\ VertexPerThread \in Nat \ {0}

VARIABLES
    phase,      \* "colour" for a round, "single" when one thread goes on alone, or "done"
    uncolored,  \* the vertices of the round, uncolored(1:nunc)
    colours,    \* colours[v], 0 for none
    nc,         \* the largest colour given so far
    work,       \* work[t]: the vertices thread t still has to go through
    read,       \* read[t]: how many neighbours of the smallest of them it has read
    fc,         \* fc[t][c]: the last vertex for which thread t has forbidden c, 0 for none
    rounds      \* 1 in the first round, 2 in later ones (only to state properties)

vars == <<phase, uncolored, colours, nc, work, read, fc, rounds>>

-----------------------------------------------------------------------------
MinOf(a, b) == IF a <= b THEN a ELSE b

\* Slip: the last one counts.
LastOf(a, b) == b

MaxOf(a, b) == IF a >= b THEN a ELSE b

Colour == 1 .. MaxDegree + 1

SmallestOf(S) == CHOOSE m \in S : \A n \in S : m <= n

\* The block of the loop over S that thread t runs.
Share(S, t) ==
    LET size  == Cardinality(S) \div Threads
        extra == Cardinality(S) % Threads
        first == (t - 1) * size + MinOf(t - 1, extra) + 1
        last  == t * size + MinOf(t, extra)
    IN  {v \in S : Cardinality({u \in S : u <= v}) \in first .. last}

\* Slip: the loop over the neighbours is left after the first one.
ConflictsFirst(v) ==
    /\ Adjacent[v] # <<>>
    /\ LET w == Adjacent[v][1] IN colours[w] = colours[v] /\ v > w

\* Slip: both vertices of a pair are coloured again.
ConflictsBoth(v) == \E w \in Neighbours(v) : colours[w] = colours[v]

\* A vertex is coloured again if a smaller neighbour has got the same colour.
Conflicts(v) == \E w \in Neighbours(v) : colours[w] = colours[v] /\ v > w

\* Slip: the loop over the colours goes one too far.
OneTooMany(t, v) == {c \in 1 .. MaxDegree + 2 : c > MaxDegree + 1 \/ fc[t][c] # v}

\* The colours that thread t has not marked for v.  Marks are never cleared.
Permissible(t, v) == {c \in Colour : fc[t][c] # v}

\* Slip: the last neighbour is left out.
AllButOneRead(t, v) == read[t] >= Len(Adjacent[v]) - 1

AllRead(t, v) == read[t] = Len(Adjacent[v])

Init ==
    /\ phase = "colour"
    /\ uncolored = Vertex
    /\ colours = [v \in Vertex |-> 0]
    /\ nc = 0
    /\ work = [t \in Thread |-> Share(uncolored, t)]
    /\ read = [t \in Thread |-> 0]
    /\ fc = [t \in Thread |-> [c \in Colour |-> 0]]
    /\ rounds = 1

\* Thread t reads the colour of the next neighbour of its vertex and forbids it.
ReadNeighbour(t) ==
    /\ work[t] # {}
    /\ LET v == SmallestOf(work[t])
       IN  /\ ~ AllRead(t, v)
           /\ LET wcol == colours[Adjacent[v][read[t] + 1]]
              IN  fc' = IF wcol = 0 THEN fc ELSE [fc EXCEPT ![t][wcol] = v]
    /\ read' = [read EXCEPT ![t] = read[t] + 1]
    /\ UNCHANGED <<phase, uncolored, colours, nc, work, rounds>>

\* Thread t gives its vertex the smallest permissible colour, if there is one, and
\* goes on to the next vertex.
GiveColour(t) ==
    /\ work[t] # {}
    /\ LET v == SmallestOf(work[t])
       IN  /\ AllRead(t, v)
           /\ IF Permissible(t, v) = {}
              THEN UNCHANGED <<colours, nc>>
              ELSE LET c == SmallestOf(Permissible(t, v))
                   IN  colours' = [colours EXCEPT ![v] = c] /\ nc' = MaxOf(nc, c)
           /\ work' = [work EXCEPT ![t] = work[t] \ {v}]
    /\ read' = [read EXCEPT ![t] = 0]
    /\ UNCHANGED <<phase, uncolored, fc, rounds>>

\* From the barrier at the end of the colouring loop to the one before the next
\* round nobody writes a colour: the threads collect the vertices of their shares
\* that are to be coloured again, and either share them or leave them to the thread
\* that comes first to the SINGLE section.
Collect ==
    /\ phase = "colour"
    /\ \A t \in Thread : work[t] = {}
    /\ LET again == {v \in uncolored : Conflicts(v)}
       IN  /\ uncolored' = again
           /\ IF Cardinality(again) < Threads * VertexPerThread
              THEN /\ phase' = "single" /\ rounds' = rounds
                   /\ \E first \in Thread :
                        work' = [t \in Thread |-> IF t = first THEN again ELSE {}]
              ELSE /\ phase' = "colour" /\ rounds' = 2
                   /\ work' = [t \in Thread |-> Share(again, t)]
    /\ UNCHANGED <<colours, nc, read, fc>>

\* The end of the parallel region.
Finish ==
    /\ phase = "single"
    /\ \A t \in Thread : work[t] = {}
    /\ phase' = "done"
    /\ UNCHANGED <<uncolored, colours, nc, work, read, fc, rounds>>

Terminated == phase = "done" /\ UNCHANGED vars

Next ==
    \/ \E t \in Thread : ReadNeighbour(t) \/ GiveColour(t)
    \/ Collect \/ Finish
    \/ Terminated

Spec == Init /\ [][Next]_vars

\* Every thread of the region runs on.
FairSpec ==
    /\ Spec
    /\ \A t \in Thread : WF_vars(ReadNeighbour(t) \/ GiveColour(t))
    /\ WF_vars(Collect) /\ WF_vars(Finish)

-----------------------------------------------------------------------------
(* Properties. *)

TypeOK ==
    /\ phase \in {"colour", "single", "done"}
    /\ uncolored \in SUBSET Vertex
    /\ colours \in [Vertex -> {0} \cup Colour]
    /\ nc \in {0} \cup Colour
    /\ work \in [Thread -> SUBSET Vertex]
    /\ read \in [Thread -> 0 .. MaxDegree]
    /\ fc \in [Thread -> [Colour -> {0} \cup Vertex]]
    /\ rounds \in 1 .. 2

\* Vertices that are not to be coloured again never clash with one another: those the
\* rounds so far have settled stay as they are, whatever is still being coloured.
SettledDiffer ==
    \A v \in Vertex \ uncolored : \A w \in Neighbours(v) \ uncolored : colours[v] # colours[w]

\* Every vertex ends with a colour up to nc, for which ElmerColouringToGraph has a
\* list, and nc is not more than the largest degree and one.
ColoursInRange ==
    phase = "done" => nc <= MaxDegree + 1 /\ \A v \in Vertex : colours[v] \in 1 .. nc

\* The result is a colouring: elements that share a node get different colours, so
\* that no two threads work on the same unknown ("Check that colouring is free of race
\* conditions", CheckColourings in DefUtils.F90).
FreeOfRaces ==
    phase = "done" => \A v \in Vertex : \A w \in Neighbours(v) : colours[v] # colours[w]

\* After one round and its repair the result is a colouring: the marks that are left from
\* the round have been overwritten where they could do harm.
FreeAfterOneRound == rounds = 1 => FreeOfRaces

\* One thread on its own resolves clashes and makes no new ones.
Clashes == {p \in Vertex \X Vertex : p[2] \in Neighbours(p[1]) /\ colours[p[1]] = colours[p[2]]}

NoNewClashes == [][phase = "single" => Clashes' \subseteq Clashes]_vars

\* The rounds come to an end.
Termination == <>(phase = "done")
=============================================================================
