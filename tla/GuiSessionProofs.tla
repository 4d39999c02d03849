--------------------------- MODULE GuiSessionProofs ---------------------------
(***************************************************************************)
(* Proofs about GuiSession, for any input files, settings and output.      *)
(***************************************************************************)
EXTENDS GuiSession, FunctionTheorems, FiniteSetTheorems, SequenceTheorems,
        WellFoundedInduction, TLAPS

-----------------------------------------------------------------------------
(* The output of the solver.                                               *)

\* The last of finitely many places in a text exists.
LEMMA LastExists ==
    ASSUME NEW n \in Nat, NEW S \in SUBSET (1 .. n), S # {}
    PROVE  \E i \in S : \A j \in S : j <= i
<1> DEFINE left == {n - i : i \in S}
<1>1. left \subseteq Nat /\ left # {}
  <2>1. \A i \in S : n - i \in Nat
    OBVIOUS
  <2> HIDE DEF left
  <2>2. left \subseteq Nat
    BY <2>1, Zenon DEF left
  <2>3. PICK i : i \in S
    OBVIOUS
  <2>4. n - i \in left
    BY <2>3, Zenon DEF left
  <2> QED
    BY <2>2, <2>4
<1>2. PICK d \in left : \A e \in left : ~ (<<e, d>> \in OpToRel(<, Nat))
  BY <1>1, WFMin, NatLessThanWellFounded, Zenon
<1>3. \A e \in left : ~ (e < d)
  BY <1>1, <1>2, Zenon DEF OpToRel
<1>4. PICK i \in S : d = n - i
  OBVIOUS
<1>5. ASSUME NEW j \in S PROVE j <= i
  <2>1. n - j \in left
    OBVIOUS
  <2>2. ~ (n - j < n - i)
    BY <1>3, <1>4, <2>1
  <2> QED
    BY <2>2
<1> QED
  BY <1>4, <1>5

\* LastNewline is a place of the text, and there is no newline behind it.
LEMMA LastNewlineIsLast ==
    ASSUME NEW qs \in Seq(Letters \cup {Newline})
    PROVE  /\ LastNewline(qs) \in 0 .. Len(qs)
           /\ LastNewline(qs) > 0 => qs[LastNewline(qs)] = Newline
           /\ \A j \in DOMAIN qs : j > LastNewline(qs) => qs[j] # Newline
<1> DEFINE ends == {i \in DOMAIN qs : qs[i] = Newline}
<1>1. Len(qs) \in Nat /\ DOMAIN qs = 1 .. Len(qs)
  OBVIOUS
<1>2. CASE ends = {}
  <2>1. LastNewline(qs) = 0
    BY <1>2 DEF LastNewline
  <2> QED
    BY <1>1, <1>2, <2>1
<1>3. CASE ends # {}
  <2>1. \E i \in ends : \A j \in ends : j <= i
    BY <1>1, <1>3, LastExists
  <2>2. LastNewline(qs) = CHOOSE i \in ends : \A j \in ends : j <= i
    BY <1>3 DEF LastNewline
  <2>3. LastNewline(qs) \in ends /\ \A j \in ends : j <= LastNewline(qs)
    BY <2>1, <2>2
  <2> QED
    BY <1>1, <2>3
<1> QED
  BY <1>2, <1>3

\* What is saved for the next time has no newline.
LEMMA SavedIsPartial ==
    ASSUME NEW save \in Seq(Letters), NEW chunk \in Chunks
    PROVE  Reassembled(save, chunk).save \in Seq(Letters)
<1> DEFINE qs == save \o chunk
           n  == LastNewline(qs)
<1>1. chunk \in Seq(Letters \cup {Newline})
  BY OutputBounds DEF Chunks
<1>2. qs \in Seq(Letters \cup {Newline})
  BY <1>1
<1>3. n \in 0 .. Len(qs) /\ \A j \in DOMAIN qs : j > n => qs[j] # Newline
  BY <1>2, LastNewlineIsLast
<1>4. \A j \in n + 1 .. Len(qs) : qs[j] \in Letters
  BY <1>2, <1>3
<1>5. SubSeq(qs, n + 1, Len(qs)) \in Seq(Letters)
  BY <1>2, <1>3, <1>4
<1> QED
  BY <1>5 DEF Reassembled

-----------------------------------------------------------------------------
(* The type invariant.                                                     *)

LEMMA StartSolverType ==
    ASSUME TypeOK, NEW kind \in {"scalar", "parallel"}, StartSolver(kind)
    PROVE  solver' \in {"idle", "scalar", "parallel"} /\ killsolverAct' \in BOOLEAN
BY DEF TypeOK, StartSolver, KillAfterStart

LEMMA RemeshType ==
    ASSUME TypeOK, NEW g \in Generators \cup {"GEN_UNKNOWN"}, NEW geometry \in Geometries,
           RemeshWith(g, geometry)
    PROVE  /\ mesh' \in {"none", "made", "deleted"} /\ nggeom' \in Geometries
           /\ thread' \in {"idle", "running", "ended"}
           /\ job' \in Generators \cup {"GEN_UNKNOWN"}
           /\ remeshAct' \in BOOLEAN /\ stopMeshingAct' \in BOOLEAN
BY DEF TypeOK, RemeshWith, Generate

\* Every variable keeps its type; in particular, what is kept of the solver's
\* output never has a newline.
THEOREM SessionTypeCorrect == Spec => []TypeOK
<1>1. Init => TypeOK
  <2>1. Init => qs_save \in Seq(Letters)
    BY DEF Init
  <2>2. Init => parallel \in [active : BOOLEAN, skip : BOOLEAN]
    BY DEF Init
  <2>3. Init => {remeshAct, stopMeshingAct, saved, killsolverAct, killresultsAct,
                 vtkPostMeshUnifierRunning} \subseteq BOOLEAN
    BY DEF Init
  <2> QED
    BY <2>1, <2>2, <2>3, FileMayBeUnreadable DEF Init, TypeOK
<1>2. ASSUME TypeOK, [Next]_vars PROVE TypeOK'
  <2> USE <1>2 DEF meshing, running, viewing
  <2>1. CASE \E g \in Generators, geometry \in Geometries : Open(g, geometry)
    BY <2>1, RemeshType DEF Open, TypeOK
  <2>2. CASE Remesh
    <3>1. /\ activeGenerator \in Generators \cup {"GEN_UNKNOWN"} /\ opened \in Geometries
          /\ RemeshWith(activeGenerator, opened)
      BY <2>2 DEF Remesh, TypeOK
    <3> QED
      BY <2>2, <3>1, RemeshType DEF Remesh, TypeOK
  <2>3. CASE StopMeshing \/ ThreadEnds
    BY <2>3 DEF StopMeshing, ThreadEnds, TypeOK
  <2>4. CASE MeshingFinished
    BY <2>4 DEF MeshingFinished, ReadyAgain, TypeOK
  <2>5. CASE Load \/ SaveMesh \/ Settings
    BY <2>5, ZenonT(30) DEF Load, SaveMesh, Settings, TypeOK
  <2>6. CASE RunSolver
    BY <2>6, StartSolverType DEF RunSolver, RunWith, TypeOK
  <2>7. CASE SaveAndRun
    BY <2>7, StartSolverType DEF SaveAndRun, RunWith, TypeOK
  <2>8. CASE \E exitCode \in {0, 1} : SplitterFinished(exitCode)
    BY <2>8, StartSolverType DEF SplitterFinished, TypeOK
  <2>9. CASE \E exitCode \in {0, 1} : UnifierFinished(exitCode)
    BY <2>9 DEF UnifierFinished, FlagAfter, StartPost, TypeOK
  <2>10. CASE SolverFinished
    BY <2>10 DEF SolverFinished, TypeOK
  <2>11. CASE \E chunk \in Chunks : SolverStdout(chunk)
    <3>1. PICK chunk \in Chunks : SolverStdout(chunk)
      BY <2>11
    <3>2. qs_save' \in Seq(Letters)
      BY <3>1, SavedIsPartial DEF SolverStdout, TypeOK
    <3> QED
      BY <3>1, <3>2 DEF SolverStdout, TypeOK
  <2>12. CASE Results
    BY <2>12, ZenonT(30) DEF Results, StartUnifier, StartPost, TypeOK
  <2>13. CASE ShowVtkPost
    BY <2>13 DEF ShowVtkPost, StartUnifier, TypeOK
  <2>14. CASE PostFinished
    BY <2>14, ZenonT(30) DEF PostFinished, TypeOK
  <2>15. CASE UNCHANGED vars
    BY <2>15 DEF vars, TypeOK
  <2> QED
    BY <2>1, <2>2, <2>3, <2>4, <2>5, <2>6, <2>7, <2>8, <2>9, <2>10, <2>11, <2>12,
       <2>13, <2>14, <2>15 DEF Next
<1> QED
  BY <1>1, <1>2, PTL DEF Spec

-----------------------------------------------------------------------------
(* The meshing thread.                                                     *)

\* The menu item is enabled exactly when the thread is idle and its signal has
\* been handled.
Guarded == remeshAct = (thread = "idle")

\* What a step may do to the work of the thread.
Kept == thread # "idle" =>
            /\ job' = job
            /\ Meshed' # Meshed =>
                  job = "GEN_TETLIB" /\ activeGenerator' = "GEN_TETLIB" /\ Meshed' = opened'

LEMMA RemeshGuarded ==
    ASSUME Guarded, TypeOK, NEW g, NEW geometry, RemeshWith(g, geometry)
    PROVE  Guarded' /\ (thread # "idle" => job' = job /\ nggeom' = nggeom)
BY DEF Guarded, TypeOK, RemeshWith, Generate, MayGenerate

LEMMA StepGuarded ==
    ASSUME Guarded, TypeOK, [Next]_vars
    PROVE  Guarded' /\ Kept
<1> USE DEF meshing, running, viewing
<1>1. CASE \E g \in Generators, geometry \in Geometries : Open(g, geometry)
  <2>1. PICK g \in Generators, geometry \in Geometries : Open(g, geometry)
    BY <1>1
  <2>2. Guarded' /\ (thread # "idle" => job' = job /\ nggeom' = nggeom)
    BY <2>1, RemeshGuarded DEF Open, Guarded
  <2>3. in' # in => activeGenerator' = "GEN_TETLIB" /\ in' = opened'
    BY <2>1 DEF Open
  <2> QED
    BY <2>2, <2>3 DEF Kept, Meshed
<1>2. CASE Remesh
  <2>1. Guarded' /\ (thread # "idle" => job' = job /\ nggeom' = nggeom) /\ in' = in
    BY <1>2, RemeshGuarded DEF Remesh
  <2> QED
    BY <2>1 DEF Kept, Meshed
<1>3. CASE StopMeshing \/ ThreadEnds
  BY <1>3 DEF StopMeshing, ThreadEnds, Guarded, Kept, Meshed
<1>4. CASE MeshingFinished
  BY <1>4 DEF MeshingFinished, ReadyAgain, Guarded, Kept, Meshed
<1>5. CASE \/ Load \/ SaveMesh \/ Settings \/ RunSolver \/ SaveAndRun \/ SolverFinished
           \/ \E exitCode \in {0, 1} : SplitterFinished(exitCode) \/ UnifierFinished(exitCode)
           \/ \E chunk \in Chunks : SolverStdout(chunk)
           \/ Results \/ ShowVtkPost \/ PostFinished
  <2>1. UNCHANGED meshing
    BY <1>5 DEF Load, SaveMesh, Settings, RunSolver, SaveAndRun, SolverFinished, SplitterFinished,
       UnifierFinished, SolverStdout, Results, ShowVtkPost, PostFinished
  <2> QED
    BY <2>1 DEF Guarded, Kept, Meshed
<1>6. CASE UNCHANGED vars
  BY <1>6 DEF vars, Guarded, Kept, Meshed
<1> QED
  BY <1>1, <1>2, <1>3, <1>4, <1>5, <1>6 DEF Next

\* While the meshing thread works, or its end has not been handled, it keeps its
\* generator and what it meshes, in whatever order files are opened and meshed: only
\* under a running Tetgen the input is replaced, by another file opened for Tetgen.
THEOREM ThreadKeepsItsJob == Spec => JobStays
<1>1. Init => Guarded
  BY DEF Init, Guarded
<1>2. Guarded /\ TypeOK /\ [Next]_vars => Guarded'
  BY StepGuarded
<1>3. Guarded /\ TypeOK /\ [Next]_vars
        => [thread # "idle" =>
               /\ job' = job
               /\ Meshed' # Meshed =>
                     job = "GEN_TETLIB" /\ activeGenerator' = "GEN_TETLIB" /\ Meshed' = opened']_vars
  BY StepGuarded DEF Kept
<1> QED
  BY <1>1, <1>2, <1>3, SessionTypeCorrect, PTL DEF Spec, JobStays

-----------------------------------------------------------------------------
(* The programs.                                                           *)

\* The flag names the viewer that has asked for the results being unified.
THEOREM ResultsGoWhereAsked == Spec => []ViewerAsked
<1>1. Init => ViewerAsked
  BY DEF Init, ViewerAsked
<1>2. ASSUME ViewerAsked, [Next]_vars PROVE ViewerAsked'
  <2> USE <1>2 DEF meshing, running, viewing
  <2>1. CASE Results
    BY <2>1 DEF Results, StartUnifier, ViewerAsked
  <2>2. CASE ShowVtkPost
    BY <2>2 DEF ShowVtkPost, StartUnifier, ViewerAsked
  <2>3. CASE \E exitCode \in {0, 1} : UnifierFinished(exitCode)
    BY <2>3 DEF UnifierFinished, FlagAfter, ViewerAsked
  <2>4. CASE \/ \E g \in Generators, geometry \in Geometries : Open(g, geometry)
             \/ Remesh \/ StopMeshing \/ ThreadEnds \/ MeshingFinished
             \/ Load \/ SaveMesh \/ Settings \/ RunSolver \/ SaveAndRun \/ SolverFinished
             \/ \E exitCode \in {0, 1} : SplitterFinished(exitCode)
             \/ \E chunk \in Chunks : SolverStdout(chunk)
             \/ PostFinished
    BY <2>4 DEF Open, Remesh, StopMeshing, ThreadEnds, MeshingFinished, Load, SaveMesh, Settings,
       RunSolver, SaveAndRun, SolverFinished, SplitterFinished, SolverStdout, PostFinished,
       ViewerAsked
  <2>5. CASE UNCHANGED vars
    BY <2>5 DEF vars, ViewerAsked
  <2> QED
    BY <2>1, <2>2, <2>3, <2>4, <2>5 DEF Next
<1> QED
  BY <1>1, <1>2, PTL DEF Spec

\* What runs can be killed, whatever starts were refused or failed since.
THEOREM ProgramsCanBeKilled == Spec => []Killable
<1>1. Init => Killable
  BY DEF Init, Killable
<1>2. ASSUME Killable, [Next]_vars PROVE Killable'
  <2> USE <1>2 DEF meshing, running, viewing
  <2>1. CASE RunSolver \/ SaveAndRun
    BY <2>1 DEF RunSolver, SaveAndRun, RunWith, StartSolver, KillAfterStart, Killable
  <2>2. CASE \E exitCode \in {0, 1} : SplitterFinished(exitCode)
    BY <2>2 DEF SplitterFinished, StartSolver, KillAfterStart, Killable
  <2>3. CASE \E exitCode \in {0, 1} : UnifierFinished(exitCode)
    BY <2>3 DEF UnifierFinished, StartPost, Killable
  <2>4. CASE Results
    BY <2>4 DEF Results, StartUnifier, StartPost, Killable
  <2>5. CASE SolverFinished \/ PostFinished
    BY <2>5 DEF SolverFinished, PostFinished, Killable
  <2>6. CASE \/ \E g \in Generators, geometry \in Geometries : Open(g, geometry)
             \/ Remesh \/ StopMeshing \/ ThreadEnds \/ MeshingFinished
             \/ Load \/ SaveMesh \/ Settings
             \/ \E chunk \in Chunks : SolverStdout(chunk)
             \/ ShowVtkPost
    BY <2>6 DEF Open, Remesh, StopMeshing, ThreadEnds, MeshingFinished, Load, SaveMesh, Settings,
       SolverStdout, ShowVtkPost, Killable
  <2>7. CASE UNCHANGED vars
    BY <2>7 DEF vars, Killable
  <2> QED
    BY <2>1, <2>2, <2>3, <2>4, <2>5, <2>6, <2>7 DEF Next
<1> QED
  BY <1>1, <1>2, PTL DEF Spec

-----------------------------------------------------------------------------
(* Lines.  Two texts have the same lines when one is the other with some     *)
(* newlines put in at the begin of the text or behind another newline.       *)

Texts == Seq(Letters \cup {Newline})

\* The text s is u with d newlines put in behind place k.
Padded(s, u, k, d) ==
    /\ s \in Texts /\ u \in Texts /\ d \in Nat /\ k \in 0 .. Len(u)
    /\ Len(s) = Len(u) + d
    /\ \A i \in 1 .. k : u[i] = s[i]
    /\ \A i \in k + 1 .. Len(u) : u[i] = s[i + d]
    /\ \A i \in k + 1 .. k + d : s[i] = Newline
    /\ k > 0 => s[k] = Newline

\* The place in s of a place in u.
Place(k, d, i) == IF i <= k THEN i ELSE i + d

\* Place e is the last of the line that starts at i.
EndsAt(s, i, e) ==
    /\ e \in i .. Len(s)
    /\ \A k \in i .. e : s[k] # Newline
    /\ e < Len(s) => s[e + 1] = Newline

\* Places i to e of s.
Part(s, i, e) == SubSeq(s, i, e)

\* Places i to e of u hold what places p to q of s do.
SamePlaces(u, i, e, s, p, q) ==
    /\ i \in 1 .. Len(u) /\ e \in i .. Len(u) /\ p \in Nat /\ p > 0 /\ q \in p .. Len(s)
    /\ q - p = e - i
    /\ \A j \in i .. e : u[j] = s[j - i + p]

\* So these parts are the same.
LEMMA SameParts ==
    ASSUME NEW u \in Texts, NEW s \in Texts, NEW i, NEW e, NEW p, NEW q,
           SamePlaces(u, i, e, s, p, q)
    PROVE  Part(u, i, e) = Part(s, p, q)
<1> DEFINE A == Letters \cup {Newline}
<1>0. u \in Seq(A) /\ s \in Seq(A)
  BY DEF Texts
<1> HIDE DEF A
<1> USE <1>0 DEF SamePlaces
<1>1. Len(u) \in Nat /\ Len(s) \in Nat /\ i \in Nat /\ e \in Nat /\ q \in Nat
  OBVIOUS
<1> DEFINE a == SubSeq(u, i, e)
           b == SubSeq(s, p, q)
<1>2. a \in Seq(A) /\ Len(a) = e - i + 1 /\ \A x \in 1 .. e - i + 1 : a[x] = u[x + i - 1]
  BY <1>1
<1>3. b \in Seq(A) /\ Len(b) = e - i + 1 /\ \A x \in 1 .. e - i + 1 : b[x] = s[x + p - 1]
  BY <1>1
<1> HIDE DEF a, b
<1>4. ASSUME NEW x \in 1 .. e - i + 1 PROVE a[x] = b[x]
  <2>1. x + i - 1 \in i .. e /\ (x + i - 1) - i + p = x + p - 1
    BY <1>1
  <2> QED
    BY <1>2, <1>3, <2>1
<1> QED
  BY <1>2, <1>3, <1>4, SeqEqual DEF a, b, Part

\* Where the lines of a text start.
LEMMA StartIs ==
    ASSUME NEW s \in Texts, NEW i
    PROVE  i \in Starts(s) <=> /\ i \in 1 .. Len(s) /\ s[i] # Newline
                               /\ i > 1 => s[i - 1] = Newline
BY DEF Starts, Texts

\* A line that starts has an end.
LEMMA LineEnds ==
    ASSUME NEW s \in Texts, NEW i \in Starts(s)
    PROVE  \E e \in i .. Len(s) : EndsAt(s, i, e)
<1> DEFINE inside == {e \in 1 .. Len(s) : i <= e /\ \A k \in i .. e : s[k] # Newline}
<1>1. Len(s) \in Nat /\ i \in 1 .. Len(s) /\ s[i] # Newline
  BY StartIs DEF Texts
<1>2. inside \in SUBSET (1 .. Len(s))
  OBVIOUS
<1>3. i \in inside
  BY <1>1
<1>4. PICK e \in inside : \A j \in inside : j <= e
  <2> HIDE DEF inside
  <2> QED
    BY <1>1, <1>2, <1>3, LastExists
<1>5. e \in i .. Len(s) /\ \A k \in i .. e : s[k] # Newline
  BY <1>1, <1>4
<1>6. ASSUME e < Len(s), s[e + 1] # Newline PROVE FALSE
  <2>1. e + 1 \in inside
    BY <1>1, <1>5, <1>6
  <2> HIDE DEF inside
  <2> QED
    BY <1>4, <1>5, <2>1
<1> QED
  BY <1>5, <1>6 DEF EndsAt

\* A line is what is between its start and its end.
LEMMA LineIs ==
    ASSUME NEW s \in Texts, NEW i \in Starts(s), NEW e, EndsAt(s, i, e)
    PROVE  Line(s, i) = Part(s, i, e)
<1> DEFINE P(j) == /\ \A k \in i .. j : s[k] # Newline
                   /\ j < Len(s) => s[j + 1] = Newline
<1>1. Len(s) \in Nat /\ i \in 1 .. Len(s)
  BY StartIs DEF Texts
<1>2. e \in i .. Len(s) /\ P(e)
  BY DEF EndsAt
<1>3. ASSUME NEW j \in i .. Len(s), P(j) PROVE j = e
  BY <1>1, <1>2, <1>3
<1>4. (CHOOSE j \in i .. Len(s) : P(j)) = e
  <2> HIDE DEF P
  <2> QED
    BY <1>2, <1>3
<1> QED
  BY <1>4 DEF Line, Part

\* Lines start at the same places, up to the newlines put in ...
LEMMA StartsPadded ==
    ASSUME NEW s, NEW u, NEW k, NEW d, Padded(s, u, k, d), NEW i \in 1 .. Len(u)
    PROVE  i \in Starts(u) <=> Place(k, d, i) \in Starts(s)
<1>1. s \in Texts /\ u \in Texts /\ Len(u) \in Nat /\ d \in Nat /\ k \in 0 .. Len(u)
  BY DEF Padded, Texts
<1>2. /\ Len(s) = Len(u) + d
      /\ \A j \in 1 .. k : u[j] = s[j]
      /\ \A j \in k + 1 .. Len(u) : u[j] = s[j + d]
      /\ \A j \in k + 1 .. k + d : s[j] = Newline
      /\ k > 0 => s[k] = Newline
  BY DEF Padded
<1>3. i \in Starts(u) <=> u[i] # Newline /\ (i > 1 => u[i - 1] = Newline)
  BY <1>1, StartIs
<1>4. \A j : j \in Starts(s) <=> /\ j \in 1 .. Len(s) /\ s[j] # Newline
                                 /\ j > 1 => s[j - 1] = Newline
  BY <1>1, StartIs
<1>5. CASE i <= k
  <2>1. u[i] = s[i] /\ (i > 1 => u[i - 1] = s[i - 1]) /\ i \in 1 .. Len(s)
    BY <1>1, <1>2, <1>5
  <2> QED
    BY <1>3, <1>4, <1>5, <2>1 DEF Place
<1>6. CASE i = k + 1
  <2>1. u[i] = s[i + d] /\ i + d \in 1 .. Len(s) /\ Place(k, d, i) = i + d
    BY <1>1, <1>2, <1>6 DEF Place
  <2>2. i > 1 => u[i - 1] = Newline
    BY <1>1, <1>2, <1>6
  <2>3. i + d > 1 => s[i + d - 1] = Newline
    BY <1>1, <1>2, <1>6
  <2>4. i + d \in Starts(s) <=> s[i + d] # Newline
    <3> DEFINE j == i + d
    <3>1. j \in 1 .. Len(s) /\ (j > 1 => s[j - 1] = Newline)
      BY <1>1, <2>1, <2>3
    <3> HIDE DEF j
    <3>2. j \in Starts(s) <=> s[j] # Newline
      BY <1>4, <3>1
    <3> QED
      BY <3>2 DEF j
  <2>5. i \in Starts(u) <=> u[i] # Newline
    BY <1>3, <2>2
  <2> QED
    BY <2>1, <2>4, <2>5
<1>7. CASE i > k + 1
  <2>1. /\ u[i] = s[i + d] /\ i + d \in 1 .. Len(s) /\ Place(k, d, i) = i + d
        /\ i > 1 /\ i + d > 1
    BY <1>1, <1>2, <1>7 DEF Place
  <2>2. u[i - 1] = s[(i - 1) + d] /\ (i - 1) + d = (i + d) - 1
    BY <1>1, <1>2, <1>7
  <2> QED
    BY <1>3, <1>4, <2>1, <2>2
<1> QED
  BY <1>1, <1>5, <1>6, <1>7

\* ... and at no others.
LEMMA StartsOfPadded ==
    ASSUME NEW s, NEW u, NEW k, NEW d, Padded(s, u, k, d), NEW j \in Starts(s)
    PROVE  \E i \in Starts(u) : j = Place(k, d, i)
<1>1. s \in Texts /\ u \in Texts /\ Len(u) \in Nat /\ d \in Nat /\ k \in 0 .. Len(u)
  BY DEF Padded, Texts
<1>2. Len(s) = Len(u) + d /\ \A i \in k + 1 .. k + d : s[i] = Newline
  BY DEF Padded
<1>3. j \in 1 .. Len(s) /\ s[j] # Newline
  BY <1>1, StartIs
<1>4. j <= k \/ j > k + d
  BY <1>1, <1>2, <1>3
<1>5. \E i \in 1 .. Len(u) : j = Place(k, d, i)
  <2>1. CASE j <= k
    BY <1>1, <1>3, <2>1 DEF Place
  <2>2. CASE j > k + d
    <3>1. j - d \in 1 .. Len(u) /\ j = Place(k, d, j - d)
      BY <1>1, <1>2, <1>3, <2>2 DEF Place
    <3> QED
      BY <3>1
  <2> QED
    BY <1>4, <2>1, <2>2
<1> QED
  BY <1>5, StartsPadded

\* A line is the same in both texts ...
LEMMA LinePadded ==
    ASSUME NEW s, NEW u, NEW k, NEW d, Padded(s, u, k, d), NEW i \in Starts(u)
    PROVE  Line(u, i) = Line(s, Place(k, d, i))
<1> DEFINE p == Place(k, d, i)
<1>1. s \in Texts /\ u \in Texts /\ Len(u) \in Nat /\ d \in Nat /\ k \in 0 .. Len(u)
  BY DEF Padded, Texts
<1>2. /\ Len(s) = Len(u) + d
      /\ \A j \in 1 .. k : u[j] = s[j]
      /\ \A j \in k + 1 .. Len(u) : u[j] = s[j + d]
      /\ k > 0 => s[k] = Newline
  BY DEF Padded
<1>3. i \in 1 .. Len(u) /\ u[i] # Newline
  BY <1>1, StartIs
<1>4. p \in Starts(s)
  BY <1>3, StartsPadded
<1>5. PICK e \in i .. Len(u) : EndsAt(u, i, e)
  BY <1>1, LineEnds
<1>6. /\ e \in Nat /\ i \in Nat /\ i <= e /\ e <= Len(u)
      /\ \A j \in i .. e : u[j] # Newline
      /\ e < Len(u) => u[e + 1] = Newline
  BY <1>1, <1>3, <1>5 DEF EndsAt
<1> DEFINE q == e - i + p
<1>7. /\ p \in Nat /\ p > 0 /\ q \in p .. Len(s) /\ q - p = e - i
      /\ \A j \in i .. e : u[j] = s[j - i + p]
      /\ q < Len(s) => s[q + 1] = Newline
  <2>1. CASE i <= k
    <3>1. e < k
      BY <1>1, <1>2, <1>6, <1>3, <2>1
    <3> QED
      BY <1>1, <1>2, <1>3, <1>6, <2>1, <3>1 DEF Place
  <2>2. CASE i > k
    <3>1. p = i + d /\ q = e + d
      BY <1>1, <1>6, <2>2 DEF Place
    <3>2. \A j \in i .. e : u[j] = s[j - i + p]
      BY <1>1, <1>2, <1>3, <1>6, <2>2, <3>1, SMTT(30)
    <3>3. q < Len(s) => s[q + 1] = Newline
      BY <1>1, <1>2, <1>3, <1>6, <2>2, <3>1
    <3> QED
      BY <1>1, <1>2, <1>3, <1>6, <2>2, <3>1, <3>2, <3>3
  <2> QED
    BY <1>1, <1>6, <2>1, <2>2
<1> HIDE DEF p, q
<1>8. \A j \in p .. q : s[j] # Newline
  <2> SUFFICES ASSUME NEW j \in p .. q PROVE s[j] # Newline
    OBVIOUS
  <2>1. q \in Int
    BY <1>7
  <2>2. j - p + i \in i .. e /\ (j - p + i) - i + p = j
    BY <1>6, <1>7, <2>1
  <2> QED
    BY <1>6, <1>7, <2>2
<1>9. EndsAt(s, p, q)
  BY <1>7, <1>8 DEF EndsAt
<1>10. Line(u, i) = Part(u, i, e) /\ Line(s, p) = Part(s, p, q)
  BY <1>1, <1>4, <1>5, <1>9, LineIs, Zenon
<1>11. Part(u, i, e) = Part(s, p, q)
  <2>1. SamePlaces(u, i, e, s, p, q)
    BY <1>3, <1>5, <1>7 DEF SamePlaces
  <2> QED
    BY <1>1, <2>1, SameParts
<1> QED
  BY <1>10, <1>11 DEF p

\* ... and has the same number.
LEMMA RankPadded ==
    ASSUME NEW s, NEW u, NEW k, NEW d, Padded(s, u, k, d), NEW i \in Starts(u)
    PROVE  Cardinality({h \in Starts(u) : h <= i})
             = Cardinality({h \in Starts(s) : h <= Place(k, d, i)})
<1> DEFINE S == {h \in Starts(u) : h <= i}
           T == {h \in Starts(s) : h <= Place(k, d, i)}
           F == [h \in S |-> Place(k, d, h)]
<1>1. s \in Texts /\ u \in Texts /\ Len(u) \in Nat /\ d \in Nat /\ k \in 0 .. Len(u)
  BY DEF Padded, Texts
<1>2. Starts(u) \subseteq 1 .. Len(u)
  BY <1>1, StartIs
<1>3. IsFiniteSet(S)
  <2>1. S \subseteq 1 .. Len(u)
    BY <1>2
  <2>2. IsFiniteSet(1 .. Len(u))
    BY <1>1, FS_Interval
  <2> QED
    BY <2>1, <2>2, FS_Subset, Zenon
<1>4. \A a, b \in Starts(u) : /\ a <= b => Place(k, d, a) <= Place(k, d, b)
                              /\ Place(k, d, a) <= Place(k, d, b) => a <= b
                              /\ Place(k, d, a) = Place(k, d, b) => a = b
  BY <1>1, <1>2 DEF Place
<1>5. F \in [S -> T]
  BY <1>2, <1>4, StartsPadded
<1>6. \A a, b \in S : F[a] = F[b] => a = b
  BY <1>4
<1>7. ASSUME NEW t \in T PROVE \E a \in S : F[a] = t
  <2>1. PICK a \in Starts(u) : t = Place(k, d, a)
    BY StartsOfPadded
  <2>2. a <= i
    BY <1>4, <1>7, <2>1
  <2> QED
    BY <2>1, <2>2
<1> HIDE DEF S, T, F
<1>8. ExistsBijection(S, T)
  <2>1. F \in Bijection(S, T)
    BY <1>5, <1>6, <1>7, Fun_IsBij, Zenon
  <2> QED
    BY <2>1 DEF ExistsBijection
<1>9. Cardinality(T) = Cardinality(S)
  BY <1>3, <1>8, FS_Bijection
<1> QED
  BY <1>9 DEF S, T

\* So the lines are the same.
LEMMA LinesPadded ==
    ASSUME NEW s, NEW u, NEW k, NEW d, Padded(s, u, k, d)
    PROVE  Lines(u) = Lines(s)
<1> DEFINE L(x, i) == <<Cardinality({h \in Starts(x) : h <= i}), Line(x, i)>>
<1>1. \A i \in Starts(u) : L(u, i) = L(s, Place(k, d, i)) /\ Place(k, d, i) \in Starts(s)
  <2> SUFFICES ASSUME NEW i \in Starts(u)
               PROVE  L(u, i) = L(s, Place(k, d, i)) /\ Place(k, d, i) \in Starts(s)
    OBVIOUS
  <2>1. i \in 1 .. Len(u)
    BY StartIs DEF Padded
  <2>2. Place(k, d, i) \in Starts(s)
    BY <2>1, StartsPadded
  <2>3. Line(u, i) = Line(s, Place(k, d, i))
    BY LinePadded
  <2>4. Cardinality({h \in Starts(u) : h <= i})
          = Cardinality({h \in Starts(s) : h <= Place(k, d, i)})
    BY RankPadded
  <2> QED
    BY <2>2, <2>3, <2>4, Zenon
<1>2. \A j \in Starts(s) : \E i \in Starts(u) : j = Place(k, d, i)
  BY StartsOfPadded
<1>3. Lines(u) = {L(u, i) : i \in Starts(u)} /\ Lines(s) = {L(s, i) : i \in Starts(s)}
  BY DEF Lines
<1> HIDE DEF L
<1> QED
  BY <1>1, <1>2, <1>3

\* A text without the newlines at its end.
LEMMA ChoppedIs ==
    ASSUME NEW t \in Texts, Len(t) > 0, t[Len(t)] = Newline
    PROVE  \E m \in 0 .. Len(t) - 1 :
              /\ Chopped(t) \in Texts /\ Len(Chopped(t)) = m
              /\ \A i \in 1 .. m : Chopped(t)[i] = t[i]
              /\ \A i \in m + 1 .. Len(t) : t[i] = Newline
<1> DEFINE A == Letters \cup {Newline}
           rest == {i \in DOMAIN t : t[i] # Newline}
<1>1. t \in Seq(A) /\ Texts = Seq(A)
  BY DEF Texts
<1> HIDE DEF A
<1>2. Len(t) \in Nat /\ DOMAIN t = 1 .. Len(t)
  BY <1>1
<1>3. CASE rest = {}
  <2>1. Chopped(t) = <<>>
    BY <1>3 DEF Chopped
  <2>2. \A i \in 1 .. Len(t) : t[i] = Newline
    BY <1>2, <1>3
  <2>3. <<>> \in Texts /\ Len(<<>>) = 0
    BY <1>1
  <2>4. 0 \in 0 .. Len(t) - 1 /\ 1 .. 0 = {}
    BY <1>2
  <2> QED
    BY <2>1, <2>2, <2>3, <2>4
<1>4. CASE rest # {}
  <2>1. \E i \in rest : \A j \in rest : j <= i
    BY <1>2, <1>4, LastExists
  <2> DEFINE m == CHOOSE i \in rest : \A j \in rest : j <= i
  <2>2. m \in rest /\ \A j \in rest : j <= m
    BY <2>1
  <2>3. Chopped(t) = SubSeq(t, 1, m)
    BY <1>4 DEF Chopped
  <2> HIDE DEF m
  <2>4. m \in 0 .. Len(t) - 1
    BY <1>2, <2>2
  <2>5. \A i \in m + 1 .. Len(t) : t[i] = Newline
    BY <1>2, <2>2, <2>4
  <2>6. /\ SubSeq(t, 1, m) \in Seq(A) /\ Len(SubSeq(t, 1, m)) = m
        /\ \A i \in 1 .. m : SubSeq(t, 1, m)[i] = t[i]
    BY <1>1, <1>2, <2>4
  <2> QED
    BY <1>1, <2>3, <2>4, <2>5, <2>6
<1> QED
  BY <1>3, <1>4

\* What is shown of a text that is read up to its last newline, n.
ShownUpTo(shown, t, n, m) ==
    /\ shown \in Texts /\ Len(shown) = m /\ m \in 0 .. n - 1
    /\ \A i \in 1 .. m : shown[i] = t[i]
    /\ \A i \in m + 1 .. n : t[i] = Newline

\* What is shown, when the text has a newline.
LEMMA ShownIs ==
    ASSUME NEW save, NEW chunk, save \o chunk \in Texts, LastNewline(save \o chunk) > 0
    PROVE  \E m : ShownUpTo(Reassembled(save, chunk).shown, save \o chunk,
                            LastNewline(save \o chunk), m)
<1> DEFINE A == Letters \cup {Newline}
           t == save \o chunk
           n == LastNewline(t)
           p == SubSeq(t, 1, n)
<1>1. t \in Seq(A) /\ Texts = Seq(A)
  BY DEF Texts
<1>3. Reassembled(save, chunk).shown = IF n > 1 THEN Chopped(p) ELSE <<>>
  BY DEF Reassembled
<1>0. n > 0
  OBVIOUS
<1> HIDE DEF t
<1>4. Len(t) \in Nat
  BY <1>1
<1>2. n \in 1 .. Len(t) /\ t[n] = Newline
  <2>1. n \in 0 .. Len(t) /\ (n > 0 => t[n] = Newline)
    BY <1>1, LastNewlineIsLast
  <2> HIDE DEF n
  <2> QED
    BY <1>0, <1>4, <2>1
<1> HIDE DEF A, n
<1>5. p \in Seq(A) /\ Len(p) = n /\ \A i \in 1 .. n : p[i] = t[i]
  BY <1>1, <1>2, <1>4
<1> HIDE DEF p
<1>6. CASE n > 1
  <2>1. PICK m \in 0 .. Len(p) - 1 :
              /\ Chopped(p) \in Texts /\ Len(Chopped(p)) = m
              /\ \A i \in 1 .. m : Chopped(p)[i] = p[i]
              /\ \A i \in m + 1 .. Len(p) : p[i] = Newline
    <3>1. p \in Texts /\ Len(p) > 0 /\ p[Len(p)] = Newline
      BY <1>1, <1>2, <1>5
    <3> QED
      BY <3>1, ChoppedIs
  <2>2. ShownUpTo(Chopped(p), t, n, m)
    BY <1>2, <1>4, <1>5, <2>1 DEF ShownUpTo
  <2> QED
    BY <1>3, <1>6, <2>2 DEF t, n
<1>7. CASE ~ (n > 1)
  <2>1. n = 1
    BY <1>2, <1>4, <1>7
  <2>2. ShownUpTo(<<>>, t, n, 0)
    BY <1>1, <1>2, <2>1 DEF ShownUpTo
  <2> QED
    BY <1>3, <1>7, <2>2 DEF t, n
<1> QED
  BY <1>6, <1>7

\* What is shown, with the newline that the log puts behind it, is what has ended of the
\* text, and what is saved completes it, up to newlines in a row.
LEMMA ShownPadded ==
    ASSUME NEW shown, NEW t \in Texts, NEW n \in 1 .. Len(t), NEW m, ShownUpTo(shown, t, n, m)
    PROVE  /\ Padded(SubSeq(t, 1, n), shown \o <<Newline>>, m + 1, n - m - 1)
           /\ Padded(t, shown \o <<Newline>> \o SubSeq(t, n + 1, Len(t)), m + 1, n - m - 1)
<1> DEFINE A == Letters \cup {Newline}
           p == SubSeq(t, 1, n)
           r == SubSeq(t, n + 1, Len(t))
           u == shown \o <<Newline>>
           v == u \o r
<1>1. t \in Seq(A) /\ shown \in Seq(A) /\ Newline \in A /\ Texts = Seq(A)
  BY DEF Texts, ShownUpTo
<1> HIDE DEF A
<1>2. Len(t) \in Nat
  BY <1>1
<1>3. /\ Len(shown) = m /\ m \in 0 .. n - 1
      /\ \A i \in 1 .. m : shown[i] = t[i]
      /\ \A i \in m + 1 .. n : t[i] = Newline
  BY DEF ShownUpTo
<1>4. p \in Seq(A) /\ Len(p) = n /\ \A i \in 1 .. n : p[i] = t[i]
  BY <1>1, <1>2
<1>5. r \in Seq(A) /\ Len(r) = Len(t) - n /\ \A i \in 1 .. Len(t) - n : r[i] = t[i + n]
  BY <1>1, <1>2
<1>6. /\ u \in Seq(A) /\ Len(u) = m + 1
      /\ \A i \in 1 .. m : u[i] = shown[i]
      /\ u[m + 1] = Newline
  BY <1>1, <1>2, <1>3
<1> HIDE DEF p, r, u
<1>7. /\ v \in Seq(A) /\ Len(v) = Len(u) + Len(r)
      /\ \A i \in 1 .. Len(u) + Len(r) : v[i] = IF i <= Len(u) THEN u[i] ELSE r[i - Len(u)]
  BY <1>5, <1>6, ConcatProperties, Zenon
<1> HIDE DEF v
<1>8. \A i \in 1 .. m + 1 : u[i] = t[i]
  BY <1>2, <1>3, <1>6
<1>11. /\ Len(v) = (m + 1) + (Len(t) - n) /\ m \in Nat /\ n \in Nat
       /\ \A i \in 1 .. m + 1 : v[i] = u[i]
       /\ \A i \in (m + 1) + 1 .. Len(v) : v[i] = r[i - (m + 1)]
  <2>1. Len(u) = m + 1 /\ Len(r) = Len(t) - n /\ m \in Nat /\ n \in Nat
    BY <1>2, <1>3, <1>5, <1>6
  <2>2. Len(v) = (m + 1) + (Len(t) - n)
    BY <1>7, <2>1
  <2>3. ASSUME NEW i \in 1 .. Len(v)
        PROVE  v[i] = IF i <= m + 1 THEN u[i] ELSE r[i - (m + 1)]
    <3>1. i \in 1 .. Len(u) + Len(r)
      BY <1>7
    <3> QED
      BY <1>7, <2>1, <3>1
  <2>4. ASSUME NEW i \in 1 .. m + 1 PROVE v[i] = u[i]
    <3>1. i \in 1 .. Len(v) /\ i <= m + 1
      BY <1>2, <2>1, <2>2
    <3> QED
      BY <2>3, <3>1
  <2>5. ASSUME NEW i \in (m + 1) + 1 .. Len(v) PROVE v[i] = r[i - (m + 1)]
    <3>1. i \in 1 .. Len(v) /\ ~ (i <= m + 1)
      BY <1>2, <2>1, <2>2
    <3> QED
      BY <2>3, <3>1
  <2> QED
    BY <2>1, <2>2, <2>4, <2>5
<1>9. Padded(p, u, m + 1, n - m - 1)
  <2>1. p \in Texts /\ u \in Texts
    BY <1>1, <1>4, <1>6
  <2>2. n - m - 1 \in Nat /\ m + 1 \in 0 .. Len(u) /\ Len(p) = Len(u) + (n - m - 1)
    BY <1>2, <1>3, <1>4, <1>6
  <2>3. \A i \in 1 .. m + 1 : u[i] = p[i]
    BY <1>2, <1>3, <1>4, <1>8
  <2>4. \A i \in (m + 1) + 1 .. Len(u) : u[i] = p[i + (n - m - 1)]
    BY <1>3, <1>6
  <2>5. \A i \in (m + 1) + 1 .. (m + 1) + (n - m - 1) : p[i] = Newline
    BY <1>2, <1>3, <1>4
  <2>6. p[m + 1] = Newline
    BY <1>2, <1>3, <1>4
  <2> QED
    BY <2>1, <2>2, <2>3, <2>4, <2>5, <2>6 DEF Padded
<1>10. Padded(t, v, m + 1, n - m - 1)
  <2>1. t \in Texts /\ v \in Texts
    BY <1>1, <1>7
  <2>2. n - m - 1 \in Nat /\ m + 1 \in 0 .. Len(v) /\ Len(t) = Len(v) + (n - m - 1)
    BY <1>2, <1>3, <1>11
  <2>3. \A i \in 1 .. m + 1 : v[i] = t[i]
    BY <1>8, <1>11
  <2>4. \A i \in (m + 1) + 1 .. Len(v) : v[i] = t[i + (n - m - 1)]
    <3> SUFFICES ASSUME NEW i \in (m + 1) + 1 .. Len(v) PROVE v[i] = t[i + (n - m - 1)]
      OBVIOUS
    <3>1. v[i] = r[i - (m + 1)] /\ i - (m + 1) \in 1 .. Len(t) - n
      BY <1>2, <1>11
    <3>2. r[i - (m + 1)] = t[(i - (m + 1)) + n] /\ (i - (m + 1)) + n = i + (n - m - 1)
      BY <1>2, <1>5, <1>11, <3>1
    <3> QED
      BY <3>1, <3>2
  <2>5. \A i \in (m + 1) + 1 .. (m + 1) + (n - m - 1) : t[i] = Newline
    BY <1>2, <1>3
  <2>6. t[m + 1] = Newline
    BY <1>2, <1>3
  <2> QED
    BY <2>1, <2>2, <2>3, <2>4, <2>5, <2>6 DEF Padded
<1> QED
  BY <1>9, <1>10 DEF p, r, u, v

\* A newline before a text.
LEMMA NewlinePadded ==
    ASSUME NEW t \in Texts
    PROVE  Padded(<<Newline>> \o t, t, 0, 1)
<1> DEFINE A == Letters \cup {Newline}
           v == <<Newline>> \o t
<1>1. t \in Seq(A) /\ Newline \in A /\ Texts = Seq(A)
  BY DEF Texts
<1> HIDE DEF A
<1>2. /\ v \in Seq(A) /\ Len(v) = Len(t) + 1 /\ Len(t) \in Nat
      /\ v[1] = Newline /\ \A i \in 1 .. Len(t) : t[i] = v[i + 1]
  BY <1>1
<1> HIDE DEF v
<1>3. /\ \A i \in 1 .. 0 : t[i] = v[i]
      /\ \A i \in 0 + 1 .. Len(t) : t[i] = v[i + 1]
      /\ \A i \in 0 + 1 .. 0 + 1 : v[i] = Newline
  BY <1>2
<1>4. Padded(v, t, 0, 1)
  BY <1>1, <1>2, <1>3 DEF Padded
<1> QED
  BY <1>4 DEF v

\* However the solver's output is cut into chunks, the lines that have ended are shown
\* whole and in their order, and what has not ended is kept (solverStdoutSlot).
THEOREM NoLineIsLost == Spec => []WholeLines
<1>1. ASSUME TypeOK, NEW chunk \in Chunks
      PROVE  LET text == qs_save \o chunk
                 r == Reassembled(qs_save, chunk)
             IN  /\ Lines(r.shown \o <<Newline>>) = Lines(SubSeq(text, 1, LastNewline(text)))
                 /\ Lines(r.shown \o <<Newline>> \o r.save) = Lines(text)
  <2> DEFINE A == Letters \cup {Newline}
             t == qs_save \o chunk
             n == LastNewline(t)
             r == Reassembled(qs_save, chunk)
  <2>1. t \in Texts
    <3>1. chunk \in Seq(A) /\ qs_save \in Seq(A)
      BY <1>1, OutputBounds DEF TypeOK, Chunks
    <3> HIDE DEF A
    <3>2. t \in Seq(A)
      BY <3>1
    <3> QED
      BY <3>2 DEF A, Texts
  <2>3. r.save = SubSeq(t, n + 1, Len(t)) /\ (~ (n > 1) => r.shown = <<>>)
    <3>1. r = [save |-> SubSeq(t, n + 1, Len(t)),
               shown |-> IF n > 1 THEN Chopped(SubSeq(t, 1, n)) ELSE <<>>]
      BY DEF Reassembled
    <3> HIDE DEF t, n, r
    <3> QED
      BY <3>1
  <2>4. n > 0 => \E m : ShownUpTo(r.shown, t, n, m)
    BY <2>1, ShownIs
  <2> HIDE DEF t, r, A
  <2>2. n \in 0 .. Len(t) /\ Len(t) \in Nat
    BY <2>1, LastNewlineIsLast DEF Texts
  <2> HIDE DEF n
  <2>5. CASE n > 0
    <3>1. PICK m : ShownUpTo(r.shown, t, n, m)
      BY <2>4, <2>5
    <3>2. n \in 1 .. Len(t)
      BY <2>2, <2>5
    <3>3. /\ Padded(SubSeq(t, 1, n), r.shown \o <<Newline>>, m + 1, n - m - 1)
          /\ Padded(t, r.shown \o <<Newline>> \o SubSeq(t, n + 1, Len(t)), m + 1, n - m - 1)
      BY <2>1, <3>1, <3>2, ShownPadded, Zenon
    <3>4. /\ Lines(r.shown \o <<Newline>>) = Lines(SubSeq(t, 1, n))
          /\ Lines(r.shown \o <<Newline>> \o SubSeq(t, n + 1, Len(t))) = Lines(t)
      BY <3>3, LinesPadded, Zenon
    <3> QED
      BY <2>3, <3>4 DEF t, n, r
  <2>6. CASE n = 0
    <3> HIDE DEF A
    <3>5. t \in Seq(A) /\ Texts = Seq(A)
      BY <2>1 DEF Texts, A
    <3>6. r.shown = <<>> /\ SubSeq(t, n + 1, Len(t)) = t
      BY <2>2, <2>3, <2>6, <3>5
    <3>7. SubSeq(t, 1, n) = <<>>
      BY <2>2, <2>6, <3>5
    <3>8. <<>> \o <<Newline>> = <<Newline>> /\ <<Newline>> \o <<>> = <<Newline>> /\ <<>> \in Texts
      BY <3>5
    <3>1. r.shown \o <<Newline>> = <<Newline>> \o SubSeq(t, 1, n) /\ SubSeq(t, 1, n) \in Texts
      BY <3>6, <3>7, <3>8
    <3>2. r.shown \o <<Newline>> \o r.save = <<Newline>> \o t
      BY <2>3, <3>6, <3>8
    <3>3. /\ Padded(<<Newline>> \o SubSeq(t, 1, n), SubSeq(t, 1, n), 0, 1)
          /\ Padded(<<Newline>> \o t, t, 0, 1)
      BY <2>1, <3>1, NewlinePadded, Zenon
    <3>4. /\ Lines(<<Newline>> \o SubSeq(t, 1, n)) = Lines(SubSeq(t, 1, n))
          /\ Lines(<<Newline>> \o t) = Lines(t)
      BY <3>3, LinesPadded, Zenon
    <3> QED
      BY <3>1, <3>2, <3>4 DEF t, n, r
  <2> QED
    BY <2>2, <2>5, <2>6
<1>2. TypeOK => WholeLines
  BY <1>1 DEF WholeLines
<1> QED
  BY <1>2, SessionTypeCorrect, PTL
=============================================================================
