----------------------------- MODULE GuiSession -----------------------------
(***************************************************************************)
(* A session of ElmerGUI (src/ElmerGUI/Application/src/mainwindow.cpp):    *)
(* the user's commands, the meshing thread with its queued signal, and the *)
(* programs the window starts: ElmerGrid to split and to unify a mesh,     *)
(* ElmerSolver and ElmerPost.  The handlers run one at a time in the event *)
(* loop of the window; the thread and the programs go on beside it.        *)
(*                                                                         *)
(* A program that could not be started is left "idle".  An action that may *)
(* be chosen from a menu is TRUE in remeshAct, killsolverAct, ...          *)
(***************************************************************************)
EXTENDS Naturals, Sequences, FiniteSets

CONSTANTS
    Generators,   \* what an input file may be meshed with; GEN_UNKNOWN: nothing
    Geometries,   \* what an input file may hold; NoGeometry: it cannot be read
    NoGeometry,
    Letters,      \* characters of the solver's output,
    Newline,      \* and the end of a line
    AutoMesh,     \* the setting "automesh"
    MaxChunk,     \* bound: characters that arrive together
    MaxPartial    \* bound: characters of a line that has not ended

ASSUME GeneratorNames ==
    Generators \subseteq {"GEN_UNKNOWN", "GEN_TETLIB", "GEN_NGLIB", "GEN_ELMERGRID"}
ASSUME FileMayBeUnreadable == NoGeometry \in Geometries
ASSUME NewlineIsNoLetter == Newline \notin Letters
ASSUME SettingIsBoolean == AutoMesh \in BOOLEAN
ASSUME OutputBounds == MaxChunk \in Nat /\ MaxPartial \in Nat

VARIABLES
    activeGenerator,  \* the generator of the file opened last
    opened,           \* and what that file holds
    in,               \* the input of Tetgen: the window and the thread have one
    nggeom,           \* the geometry of Netgen, which the thread was given
    mesh,             \* of glWidget: "none", "made", or "deleted" when the
                      \* pointer still leads to a mesh that was deleted
    thread,           \* the meshing thread: "idle", "running", or "ended" when
                      \* its signal finished() waits in the event queue
    job,              \* the generator it was given
    remeshAct,
    stopMeshingAct,
    saved,            \* saveDirName is not empty
    parallel,         \* the settings of a parallel run, in a window that stays open
    meshSplitter,     \* "idle" or "running"
    solver,           \* "idle", "scalar" or "parallel"
    killsolverAct,
    meshUnifier,      \* "idle", or what its result was asked for: "post" or "vtk"
    vtkPostMeshUnifierRunning,
    post,             \* ElmerPost: "idle" or "running"
    killresultsAct,
    qs_save           \* the line of the solver's output that has not ended

meshing == <<activeGenerator, opened, in, nggeom, thread, job, remeshAct, stopMeshingAct>>
running == <<solver, killsolverAct, qs_save>>
viewing == <<meshUnifier, vtkPostMeshUnifierRunning, post, killresultsAct>>
vars == <<meshing, mesh, saved, parallel, meshSplitter, running, viewing>>

Threaded == {"GEN_TETLIB", "GEN_NGLIB"}

-----------------------------------------------------------------------------
(* Meshing.                                                                *)

Init ==
    /\ activeGenerator = "GEN_UNKNOWN" /\ mesh = "none"
    /\ opened = NoGeometry /\ in = NoGeometry /\ nggeom = NoGeometry
    /\ thread = "idle" /\ job = "GEN_UNKNOWN"
    /\ remeshAct = TRUE /\ stopMeshingAct = FALSE
    /\ saved = FALSE
    /\ parallel \in [active : BOOLEAN, skip : BOOLEAN]
    /\ meshSplitter = "idle"
    /\ solver = "idle" /\ killsolverAct = FALSE /\ qs_save = <<>>
    /\ meshUnifier = "idle" /\ vtkPostMeshUnifierRunning = FALSE
    /\ post = "idle" /\ killresultsAct = FALSE

\* A slip for the checks to catch: remeshSlot does not ask.
GenerateAnyway == TRUE

MayGenerate == remeshAct

\* The part of remeshSlot that starts the thread with generator g, where the file
\* that is open holds `geometry`; generate() stores what it is given before it looks
\* whether the thread runs.  Netgen gets the file loaded anew.
Generate(g, geometry) ==
    /\ MayGenerate
    /\ mesh' = "made"
    /\ remeshAct' = FALSE
    /\ stopMeshingAct' = (g # "GEN_NGLIB")
    /\ job' = g
    /\ nggeom' = IF g = "GEN_NGLIB" THEN geometry ELSE nggeom
    /\ thread' = IF thread = "running" THEN thread ELSE "running"

\* The input may be unusable.
RemeshWith(g, geometry) ==
    \/ /\ g = "GEN_ELMERGRID" /\ mesh' = "made"
       /\ UNCHANGED <<nggeom, thread, job, remeshAct, stopMeshingAct>>
    \/ g \in Threaded /\ Generate(g, geometry)
    \/ /\ g # "GEN_ELMERGRID"
       /\ UNCHANGED <<mesh, nggeom, thread, job, remeshAct, stopMeshingAct>>

\* remeshSlot
Remesh ==
    /\ RemeshWith(activeGenerator, opened)
    /\ UNCHANGED <<activeGenerator, opened, in, saved, parallel, meshSplitter, running, viewing>>

\* openSlot with readInputFile, which does not ask whether the thread runs: a file
\* for Tetgen is read into the structure that a running Tetgen reads.
Open(g, geometry) ==
    /\ activeGenerator' = g /\ opened' = geometry
    /\ in' = IF g = "GEN_TETLIB" THEN geometry ELSE in
    /\ saved' = FALSE
    /\ IF AutoMesh THEN RemeshWith(g, geometry)
                   ELSE UNCHANGED <<mesh, nggeom, thread, job, remeshAct, stopMeshingAct>>
    /\ UNCHANGED <<parallel, meshSplitter, running, viewing>>

\* stopMeshingSlot: QThread::terminate.
StopMeshing ==
    /\ stopMeshingAct /\ ~remeshAct
    /\ thread = "running"
    /\ thread' = "ended"
    /\ UNCHANGED <<activeGenerator, opened, in, nggeom, job, remeshAct, stopMeshingAct, mesh,
                   saved, parallel, meshSplitter, running, viewing>>

\* The end of MeshingThread::run.
ThreadEnds ==
    /\ thread = "running"
    /\ thread' = "ended"
    /\ UNCHANGED <<activeGenerator, opened, in, nggeom, job, remeshAct, stopMeshingAct, mesh,
                   saved, parallel, meshSplitter, running, viewing>>

\* A slip for the checks to catch: an unknown generator is an early return.
ReadyIfKnown == activeGenerator \in Threaded

ReadyAgain == TRUE

\* meshingFinishedSlot, when the event queue comes to the signal: the mesh is
\* made with the generator that is active now.
MeshingFinished ==
    /\ thread = "ended"
    /\ thread' = "idle"
    /\ mesh' = IF activeGenerator \in Threaded THEN "made" ELSE mesh
    /\ remeshAct' = (remeshAct \/ ReadyAgain)
    /\ stopMeshingAct' = (stopMeshingAct /\ ~ReadyAgain)
    /\ UNCHANGED <<activeGenerator, opened, in, nggeom, job, saved, parallel, meshSplitter,
                   running, viewing>>

\* loadElmerMesh, which deletes the mesh and keeps its address when it fails.
Load ==
    /\ \/ mesh' = "made" /\ saved' = TRUE
       \/ mesh' = "deleted" /\ UNCHANGED saved
    /\ UNCHANGED <<meshing, parallel, meshSplitter, running, viewing>>

\* GLWidget::hasMesh
HasMesh == mesh # "none"

\* saveAsSlot and saveProject
SaveMesh ==
    /\ HasMesh
    /\ saved' = TRUE
    /\ UNCHANGED <<meshing, mesh, parallel, meshSplitter, running, viewing>>

-----------------------------------------------------------------------------
(* Running the solver.                                                     *)

\* parallelSettingsSlot: the user changes the settings at any time.
Settings ==
    /\ parallel' \in [active : BOOLEAN, skip : BOOLEAN]
    /\ parallel' # parallel
    /\ UNCHANGED <<meshing, mesh, saved, meshSplitter, running, viewing>>

\* A slip for the checks to catch: the menu follows this start only.
KillIfStarted(started) == started

KillAfterStart(started) == TRUE

\* solver->start(...): QProcess refuses while the program runs, and the program
\* may fail to start.
StartSolver(kind) ==
    /\ \/ solver = "idle" /\ solver' = kind
       \/ UNCHANGED solver
    /\ killsolverAct' = KillAfterStart(solver' # solver)

\* runsolverSlot behind its first guards.
RunWith(hasDir) ==
    \/ ~parallel.active /\ StartSolver("scalar") /\ UNCHANGED meshSplitter
    \/ parallel.active /\ parallel.skip /\ StartSolver("parallel") /\ UNCHANGED meshSplitter
    \/ /\ parallel.active /\ ~parallel.skip
       /\ meshSplitter = "idle" /\ hasDir
       /\ meshSplitter' \in {"idle", "running"}
       /\ UNCHANGED <<solver, killsolverAct>>

RunSolver ==
    /\ HasMesh /\ solver = "idle"
    /\ RunWith(saved)
    /\ UNCHANGED <<meshing, mesh, saved, parallel, qs_save, viewing>>

\* saveAndRun: the project is saved before.
SaveAndRun ==
    /\ HasMesh /\ solver = "idle"
    /\ saved' = TRUE
    /\ RunWith(TRUE)
    /\ UNCHANGED <<meshing, mesh, parallel, qs_save, viewing>>

\* meshSplitterFinishedSlot
SplitterFinished(exitCode) ==
    /\ meshSplitter = "running"
    /\ meshSplitter' = "idle"
    /\ IF exitCode = 0 THEN StartSolver("parallel") ELSE UNCHANGED <<solver, killsolverAct>>
    /\ UNCHANGED <<meshing, mesh, saved, parallel, qs_save, viewing>>

\* solverFinishedSlot, also after killsolverSlot.
SolverFinished ==
    /\ solver # "idle"
    /\ solver' = "idle"
    /\ killsolverAct' = FALSE
    /\ UNCHANGED <<meshing, mesh, saved, parallel, meshSplitter, qs_save, viewing>>

LastNewline(qs) ==
    LET ends == {i \in DOMAIN qs : qs[i] = Newline}
    IN  IF ends = {} THEN 0 ELSE CHOOSE i \in ends : \A j \in ends : j <= i

\* Without the newlines at its end.
Chopped(qs) ==
    LET rest == {i \in DOMAIN qs : qs[i] # Newline}
    IN  IF rest = {} THEN <<>> ELSE SubSeq(qs, 1, CHOOSE i \in rest : \A j \in rest : j <= i)

\* Slips for the checks to catch: the line that was saved is shown and stays
\* saved, and a newline at the begin is saved with what follows.
SavedStays(save, chunk) ==
    LET qs == save \o chunk
        n == LastNewline(qs)
    IN  [save |-> IF n > 1 /\ n = Len(qs) THEN save ELSE SubSeq(qs, n + 1, Len(qs)),
         shown |-> IF n > 1 THEN Chopped(SubSeq(qs, 1, n)) ELSE <<>>]
SavedWithNewline(save, chunk) ==
    LET qs == save \o chunk
        n == LastNewline(qs)
    IN  [save |-> IF n = 1 THEN qs ELSE SubSeq(qs, n + 1, Len(qs)),
         shown |-> IF n > 1 THEN Chopped(SubSeq(qs, 1, n)) ELSE <<>>]

\* solverStdoutSlot: what is saved for the next time and what is shown, where
\* save is what the last time has left.
Reassembled(save, chunk) ==
    LET qs == save \o chunk
        n == LastNewline(qs)
    IN  [save |-> SubSeq(qs, n + 1, Len(qs)),
         shown |-> IF n > 1 THEN Chopped(SubSeq(qs, 1, n)) ELSE <<>>]

Chunks == UNION {[1 .. k -> Letters \cup {Newline}] : k \in 1 .. MaxChunk}

SolverStdout(chunk) ==
    /\ solver # "idle"
    /\ qs_save' = Reassembled(qs_save, chunk).save
    /\ Len(qs_save') <= MaxPartial
    /\ UNCHANGED <<meshing, mesh, saved, parallel, meshSplitter, solver, killsolverAct, viewing>>

-----------------------------------------------------------------------------
(* Viewing the results.                                                    *)

\* meshUnifier->start for ElmerPost or for the VTK window; it may fail.
StartUnifier(viewer) ==
    /\ parallel.active
    /\ meshUnifier = "idle" /\ saved
    /\ meshUnifier' \in {"idle", viewer}

\* post->start
StartPost ==
    /\ \/ post = "idle" /\ post' = "running"
       \/ UNCHANGED post
    /\ killresultsAct' = TRUE

\* resultsSlot
Results ==
    /\ post = "idle"
    /\ \/ /\ StartUnifier("post")
          /\ UNCHANGED <<post, killresultsAct>>
       \/ ~parallel.active /\ StartPost /\ UNCHANGED meshUnifier
    /\ UNCHANGED <<meshing, mesh, saved, parallel, meshSplitter, running,
                   vtkPostMeshUnifierRunning>>

\* showVtkPostSlot
ShowVtkPost ==
    /\ HasMesh
    /\ StartUnifier("vtk")
    /\ vtkPostMeshUnifierRunning' = (meshUnifier' = "vtk")
    /\ UNCHANGED <<meshing, mesh, saved, parallel, meshSplitter, running, post, killresultsAct>>

\* A slip for the checks to catch: a unification that fails leaves the flag.
FlagAfterFailure(exitCode) == vtkPostMeshUnifierRunning /\ exitCode # 0

FlagAfter(exitCode) == FALSE

\* meshUnifierFinishedSlot: the window that the flag names, or ElmerPost if the
\* file it wants exists.
UnifierFinished(exitCode) ==
    /\ meshUnifier # "idle"
    /\ meshUnifier' = "idle"
    /\ vtkPostMeshUnifierRunning' = FlagAfter(exitCode)
    /\ \/ exitCode = 0 /\ ~vtkPostMeshUnifierRunning /\ StartPost
       \/ UNCHANGED <<post, killresultsAct>>
    /\ UNCHANGED <<meshing, mesh, saved, parallel, meshSplitter, running>>

\* postProcessFinishedSlot, also after killresultsSlot.
PostFinished ==
    /\ post # "idle"
    /\ post' = "idle"
    /\ killresultsAct' = FALSE
    /\ UNCHANGED <<meshing, mesh, saved, parallel, meshSplitter, running, meshUnifier,
                   vtkPostMeshUnifierRunning>>

-----------------------------------------------------------------------------

Next ==
    \/ \E g \in Generators, geometry \in Geometries : Open(g, geometry)
    \/ Remesh \/ StopMeshing \/ ThreadEnds \/ MeshingFinished
    \/ Load \/ SaveMesh
    \/ Settings \/ RunSolver \/ SaveAndRun
    \/ \E exitCode \in {0, 1} : SplitterFinished(exitCode) \/ UnifierFinished(exitCode)
    \/ SolverFinished
    \/ \E chunk \in Chunks : SolverStdout(chunk)
    \/ Results \/ ShowVtkPost \/ PostFinished

Spec == Init /\ [][Next]_vars

\* A generator comes to its end, and the event loop to every signal.
FairSpec == Spec /\ WF_vars(ThreadEnds) /\ WF_vars(MeshingFinished)

-----------------------------------------------------------------------------
(* Properties.                                                             *)

TypeOK ==
    /\ activeGenerator \in Generators \cup {"GEN_UNKNOWN"}
    /\ {opened, in, nggeom} \subseteq Geometries
    /\ mesh \in {"none", "made", "deleted"}
    /\ thread \in {"idle", "running", "ended"}
    /\ job \in Generators \cup {"GEN_UNKNOWN"}
    /\ {remeshAct, stopMeshingAct, saved, killsolverAct, killresultsAct,
        vtkPostMeshUnifierRunning} \subseteq BOOLEAN
    /\ parallel \in [active : BOOLEAN, skip : BOOLEAN]
    /\ meshSplitter \in {"idle", "running"}
    /\ solver \in {"idle", "scalar", "parallel"}
    /\ meshUnifier \in {"idle", "post", "vtk"}
    /\ post \in {"idle", "running"}
    /\ qs_save \in Seq(Letters)

\* What MeshingThread::run meshes.
Meshed == IF job = "GEN_TETLIB" THEN in ELSE nggeom

\* While the meshing thread runs, or its finished() has not been handled, it keeps
\* its generator, and Netgen its geometry, through every file that is opened,
\* automatic remeshing and termination: remeshAct is disabled by remeshSlot and
\* enabled by meshingFinishedSlot only.  Only what Tetgen works on is not kept, and
\* by one thing only: another file for Tetgen is opened (readInputFile).
JobStays ==
    [][thread # "idle" =>
           /\ job' = job
           /\ Meshed' # Meshed =>
                 job = "GEN_TETLIB" /\ activeGenerator' = "GEN_TETLIB" /\ Meshed' = opened']_vars

\* A mesh generation comes to its end, and the window can start another.
MeshingEnds == ~remeshAct ~> remeshAct

\* The parts of a result that one viewer has asked for are not opened in the
\* other: vtkPostMeshUnifierRunning says whose they are as long as the unifier
\* runs, whatever unifications have failed before.
ViewerAsked == vtkPostMeshUnifierRunning = (meshUnifier = "vtk")

\* A program that runs can be killed, also when another start of it was asked for
\* in the meantime (solverFinishedSlot, meshSplitterFinishedSlot,
\* meshUnifierFinishedSlot).
Killable == (solver # "idle" => killsolverAct) /\ (post # "idle" => killresultsAct)

\* The lines of a text that are not blank, each with its number.
Starts(s) == {i \in DOMAIN s : s[i] # Newline /\ (i > 1 => s[i - 1] = Newline)}
Line(s, i) ==
    SubSeq(s, i, CHOOSE j \in i .. Len(s) :
                    /\ \A k \in i .. j : s[k] # Newline
                    /\ j < Len(s) => s[j + 1] = Newline)
Lines(s) == {<<Cardinality({h \in Starts(s) : h <= i}), Line(s, i)>> : i \in Starts(s)}

\* However the solver's output is cut into chunks, the log shows the lines that
\* have ended, whole and in order, and nothing of the others is lost: they are
\* parsed for the convergence plot.
WholeLines ==
    \A chunk \in Chunks :
        LET text == qs_save \o chunk
            r == Reassembled(qs_save, chunk)
        IN  /\ Lines(r.shown \o <<Newline>>) = Lines(SubSeq(text, 1, LastNewline(text)))
            /\ Lines(r.shown \o <<Newline>> \o r.save) = Lines(text)
=============================================================================
