# Formal models of Elmer

These TLA+ modules model the control flow of Elmer. Of ElmerSolver, the finite element solver: how a
simulation is marched in time, how trial steps are refused and repeated, how the solvers of a case are
iterated together by several MPI ranks, how OpenMP threads colour a mesh and build the pattern of a
matrix, and what ends up in the output. Of MATC, the expression language of the input files: how its
variables share memory and survive errors. Of ElmerGUI: how a session goes on beside the meshing thread
and the programs it starts. The numerics are abstracted to what the control depends on. `src/` below is
the repository's root.

## 1. The system

ElmerSolver reads a command file and a mesh, and runs *solvers* (a physical model, a
post-processing step) in the slots of a simulation: before and after the simulation, before, in and
after every timestep, before and after saving. It is one sequential Fortran program per MPI rank.
Ranks share nothing and meet in collective calls and point-to-point exchanges. Within a rank, OpenMP
threads colour the mesh and assemble matrices in parallel regions. Expressions in the command file are
given to MATC, a library in C with variables of its own. ElmerGUI is a Qt program with one meshing thread;
it starts ElmerGrid, ElmerSolver and ElmerPost as processes and is told by signals of what they print and
that they have ended.

| Component | State | Operations | Interacts with |
|---|---|---|---|
| Time loop, `fem/src/ElmerSolver.F90` (`ExecSimulation`, `InitializeIntervals`, `SaveCurrent`, `SaveToPost`) | `interval`, `timestep`, `cum_Timestep`, `sTime`, `sStep`, `sSize`, `sPrevSizes`, `dt`, `ddt`, `CumTime`, `StepControl`, `SmallestCount`, `AdaptVars`, `LastSaved` | begin a step, fixed step, adaptive trial (one full sub-step, two halves), accept, reject, divergence retry, save, leave, final save | calls `SolveEquations`; reads what solvers leave in their variables |
| Solver dispatch, `fem/src/MainUtils.F90` (`SolveEquations`, `SolveCoupled`, `SolverActivate`, `SingleSolver`) | `DoneThis`, coupled iteration, `ParEnv % Active` | run a slot, iterate the coupled solvers, tell who is active | called by the time loop; collectives on `ELMER_COMM_WORLD` and on the active ranks |
| Time step initialisation and norms, `fem/src/SolverUtils.F90` (`InitializeTimestep`, `ComputeChange`) | `Values`, `PrevValues`, `DoneTime`, `NonlinConverged`, `SteadyConverged` | shift a history, test convergence | called for every solver |
| Run control, `ElmerSolver.F90` | sweep counter, parameters | repeat a simulation with other parameters | resets and re-enters the time loop |
| Restart and result files, `fem/src/ModelDescription.F90` (`SaveResult`, `LoadRestartFile`) | result file, saved steps, position lists | append a step, read one back | called by the time loop |
| Parallel exchanges, `fem/src/SParIterComm.F90`, `ParallelUtils.F90`, `SParIterSolver.F90` | communicators, neighbour lists, attached send buffer | exchange of interface values, global numbering, reductions, barriers | every parallel solver |
| Mesh colouring, `fem/src/MeshUtils.F90` (`ElmerGraphColour`) | colours, vertices of the round, marks per thread | colour the elements with several threads, repair clashes | assembly loops take one colour at a time without locks |
| List matrices, `fem/src/ListMatrixArray.F90`, `MakeListMatrixArray` in `ElementUtils.F90`, `ListMatrix.F90` | sorted row lists, row locks, pools of entries per thread | add, delete, convert | OpenMP threads build the sparsity pattern of a matrix, colour by colour |
| Hash table, `fem/src/HashTable.F90` | buckets, chains | add, rebuild, remove, iterate | element and edge tables |
| Keyword lists, `fem/src/Lists.F90` | lists, stack of namespaces | get, add, push, pop | everything |
| MATC variables, `matc/src/variable.c`, `lists.c`, `eval.c`, `funcs.c`, `matc.c`, `error.c` | `VAR_HEAD`, temporaries, the reference counts of matrices, `ALLOC_HEAD` | read, compute, assign, assign elements, delete, clear, enter and leave a block, call a function, return, recover from an error | called for every expression of a command file |
| ElmerGUI session, `ElmerGUI/Application/src/mainwindow.cpp`, `meshingthread.cpp` | generator, mesh, thread, processes, enabled menu items, flags between handlers | open, mesh, stop, load, save, run, split, unify, view, kill | meshing thread through a queued signal, ElmerGrid, ElmerSolver and ElmerPost as processes |
| Not considered further | | linear algebra, meshes, physical models, editors and drawing of ElmerGUI, elmergrid, parser and commands of MATC, Lua, post-processing, build, vendored libraries | section 6 |

What is hard to test here is not a single routine but the order of many: a refused trial step must
restore everything three solves have changed; a step size chosen in one timestep is used in the
next, of another size; three places (clock, size ladder, solver histories) advance by their own
rules and have to agree; the loop is left in four ways and must still have saved its last state; and
ranks that do not execute a solver have to take the same decisions as those that do. A variable of MATC
must be what it was when an expression fails in the middle of a function. In the window every handler
finds what others, the thread and the programs have left, in whatever order they came. Nothing is
persisted by the parts modelled, so there are no crashes and restarts in the models; the failures are
refused trials, errors in expressions, programs that do not start or end with an error, and a terminated
thread.

What makes each component correct:

- time loop: the solution is at the instant the clock says; sub-steps fit into their timestep; a
  refused trial leaves no trace; nothing is saved twice or stale; the last state is saved; it ends;
- solver dispatch: ranks meet in the same calls; the loop is left early only when every solver
  converged in one pass; a solver that waits for the others gets converged fields;
- run control: a sweep starts from the state the first one started from;
- result files: what is read back is what was saved last, after appending and restarting;
- exchanges: every message is received by the exchange it was sent in, no rank waits for ever;
- mesh colouring: elements of one colour have no node in common, every colour has its list, it ends;
- list matrices: no two threads are in a row at once, lists stay sorted and counted, and what is built
  is the pattern the elements need; hash table: it implements a map;
- MATC variables: a matrix lives exactly as long as something refers to it, a name is in a list once, an
  assignment changes one variable, an error leaves the variables as they were before the call;
- ElmerGUI session: the thread keeps its job while it works (but for the input of Tetgen, which opening
  another file of that kind replaces), meshing can always be started again, results go to the viewer that asked for them, what runs can be killed, no output is lost.

## 2. Plan

1. `TimeMarch`, `TimeStepping`: the time loop, its abstract specification, fixed, adaptive and
   divergence controlled steps, saving. **Done**, with proofs in `TimeSteppingProofs` and
   `TimeMarchProofs`.
2. `CoupledSolve`: the coupled iteration on several ranks. **Done**, with proofs in
   `CoupledSolveProofs`.
3. `GraphColour`: the colouring by several threads. **Done**, with proofs in `GraphColourProofs`.
4. `SparsityPattern`, `ListMatrixArray`: the sparsity pattern built by several threads. **Done**, with
   proofs in `ListMatrixArrayProofs` and `SparsityPatternProofs`.
5. `MatcVariables`: the variables of MATC, function calls and errors. **Done**, with proofs in
   `MatcVariablesProofs`.
6. `GuiSession`: ElmerGUI's meshing thread and processes. **Done**, with proofs in `GuiSessionProofs`.
7. `ParallelTimeLoop`: ranks that each decide on accepting a sub-step and on leaving the loop
   (`ElmerSolver.F90:3296, 3478`), composed with the collectives of `CoupledSolve`.
8. `SParExchange`: the exchange of interface values (two messages per neighbour, buffered sends,
   posted receives, `SParIterComm.F90:3295, 4623, 109`) and the global numbering (`:1946`), refining
   an atomic exchange.
9. `HashTable` refining a map, with the order of chains over a rebuild; the sequential `ListMatrix`.
10. `ResultFile`: `SaveResult` and restart; `RunControl`: sweeps; the namespace stack of `Lists`.
11. `PredictorCorrector`: the predictor and corrector phases and the step size they choose.

Every invariant that a run checks is proved, and so are the action properties and the two refinements
(section 5). Theorems still worth proving: what holds with `LateErrors` or `IndexShared` in `MatcVariables`
(the types, and which of the parts of `MatcInv` do not need these), and the abstract specifications of the
modules to come.

## 3. Modules

### TimeStepping

One process. `pc` says where in `ExecSimulation` it is; the variables are those of the code, under
their names or with the name given at their declaration.

| Action | Code |
|---|---|
| `BeforeSimulation` | solvers "before simulation" (`ElmerSolver.F90:2749`) |
| `BeginTimestep`, `NextInterval` | the two loops, size of the step, clock, size ladder, first sub-step (2905-3081, 3224-3227, 3346-3350) |
| `FixedStep` | `SolveEquations` once (3428) |
| `AdaptiveFull`, `AdaptiveHalves`, `AdaptiveAccept`, `AdaptiveReject` | 3197-3343 |
| `DivergenceTry`, `DivergenceAccept`, `DivergenceReject`, `DivergenceFatal` | 3344-3427 |
| `EndSubSteps` | the end of the sub-step loop, with the clock set back by adaptive stepping only |
| `SaveStep` | 3437-3472 with the solvers before and after saving |
| `NextTimestep`, `SteadyExit`, `EarlyExit` | 3477-3515 |
| `AfterSimulation`, `FinalSave` | 3538-3596 |

*Abstractions.* A field is its *level*, the instant it approximates: a solver with a time
derivative sets its values to `PrevValues(:,1)` plus the step size it is called with, one without is
evaluated at the clock. The history `PrevValues(:,1..5)` is a tuple of levels, `done` is `DoneTime`,
`diverged` is `NonlinConverged > 1`. So a wrong restore, a step size that differs from the clock's,
or a history shifted once too often shows as a wrong level. Convergence, divergence, the error of a
trial and the steady state are choices. The size of each step is any of `StepSizes[interval]`, which
stands for the keywords that may compute it. Sizes are even numbers of ticks so that halves are
exact; `Increase` and `Decrease` are operators with the assumption that the first does not decrease
and the second decreases above the minimum. The tolerance 1e-12 of the code's comparisons is zero
ticks. `Order` is 0 or the length of the history of a solver of first order in time.

*Left out.* Second order in time, extrapolation, Runge-Kutta, the predictor-corrector slot, periodic
and parallel time, the rotor angle, mesh changes, 'Exec Condition', 'Steady State Condition',
timesteps added during the run, scanning of eigenmodes, namespaces, wall-clock output.

### TimeMarch

What a reader of the output may rely on: the solution moves forward, what is written is the state
reached, no instant is written twice, and an ended simulation has written its last state.
`TimeStepping` implements it with `reached` mapped to the accepted instant (`Reached`), `written` to
the instants in the post file and `ended` to `pc = "done"` (property `MarchSpec`). All trials,
rejections and half steps are stutters.

### CoupledSolve

`SolveCoupled` on every rank: `pass`, `solver` and `done` are `i`, `k` and `DoneThis` of each rank.
`StartSolver`, `StartPass`, `Leave` and `Bystand` are what a rank does on its own; it runs up to the
next collective call in one step, which nobody else can observe. `Activate` (`ParallelActive`),
`Solve` (the active ranks, on their communicator, including `ComputeChange`) and `Reduce`
(`ParallelAllReduceAnd`) are collective: they happen when all ranks concerned are in the call.
`verdict` is `DoneThis(k)` before the reduction together with the pass it is from; `finished` is
`Mesh % AdaptiveFinished`. The active ranks get one common outcome because the norms are reduced over
their communicator. `IterationAssumption` demands a solver that does not wait for the others;
`Coupled` are the solvers with a procedure that are executed "always" and not skipped in this step.

*Left out.* Namespaces, mesh change flags, 'Calculate Derivative', 'Reference Norm' (a test in a
single pass), SolverActivate's own conditions ('Exec Intervals', the same on all ranks).

### GraphColour

`ElmerGraphColour` in one parallel region of `Threads` threads. `ReadNeighbour` is one pass of the loop
over the neighbours (one atomic read and the mark in the thread's own `fc`), `GiveColour` the search
for the smallest colour with the atomic write, `Collect` everything between the barrier after the
colouring loop and the start of the next round or of the SINGLE section. Nobody writes a colour
there, so the conflict loop, the concatenation of the threads' lists and the decision are one step.
`Finish` is the end of the region. `rounds` is not in the code: it tells one round from several. `work[t]` is what is left of the thread's share of the loop.

*Abstractions.* Loops are shared in contiguous blocks, which is what the compilers in use do for a loop
without a SCHEDULE clause; all lists are then ascending and are sets. `nc` is one variable for a
maximum that each thread has of its own until the region ends. The dual graph is a constant; that
neighbours are mutual and listed once, as `ElmerMeshToDualGraph` makes them, is `GraphAssumption`.
The threads are those the region gets, and are as many as it asked for.

*Left out.* The growth of the list `rc`, allocation failures, the construction of the dual graph.

### ListMatrixArray and SparsityPattern

`MakeListMatrixArray` and the routines of `ListMatrixArray.F90` it calls from a parallel region.

| Action | Code |
|---|---|
| `TakeElement` | one pass of the `!$OMP DO` loop up to the calls (`ElementUtils.F90:1383-1493`) |
| `NextColour`, `EndRegion` | the barriers at the ends of the loops over elements and colours (1496-1500), the calls of `AddEntry` after them (1519-1570) |
| `Finish` | the sums of the degrees (1616-1643) |
| `LockRow`, `UnlockRow` | begin and end of `AddEntries` and `AddEntry` (`ListMatrixArray.F90:309, 380`) |
| `NewHead`, `StartSearch` | what is done with the first column at the head of the row (311-335) |
| `Advance`, `Skip`, `Insert` | one pass of the search loop (341-345), a column that is there (359-363), a new entry (351-358, 371-378) |

`column`, `pEntry` and `cEntry` are the local `centry`, `PEntryPtr` and `CEntryPtr` of each thread, `head`,
`degree` and `heap` the rows and entries in shared memory, `used` the place in each thread's pool. Nothing
keeps threads from a row but `lock` and the colours: a thread that came in beside another would follow and
overwrite its pointers. `ListMatrixArray` implements `SparsityPattern`: connections are added one by one,
none is lost, none is added that is not needed, and in the end all are there.

*Abstractions.* Any thread may take any element. An element is its sorted unknowns (`Indexes`); the
formulas for the numbers of edge, face and bubble unknowns are left to the constant. `AddEntry(row, col)`
does what `AddEntries` does with one column. The pools never run out: a chunk is added when one is full.
The connections after the region stand for radiation, point and connection elements.

*Left out.* `DeleteEntry` and the lists of deleted entries, which nothing calls; the pass over the faces of
discontinuous Galerkin elements; the loop over projectors; the copy to the CRS format.

### MatcVariables

The memory of the variables of MATC. `env.list` is the list that begins at `VAR_HEAD`; a function that
runs has a list of its own, and `callers` are the lists its callers will go back to. `temps` is the stack
of temporaries of all expressions that are being evaluated, `begin` where those of the present statement
begin. `recent` is `ALLOC_HEAD`, what this call has allocated so far; `saved` is `headsave` of `mtc_domath`.

A call is evaluated step by step, a statement being any sequence of steps that leaves the temporaries it
ends with:

| Action | Code |
|---|---|
| `Read`, `Compute` | a variable's name (`eval.c:224-236`); a constant, a command, an operator, an element, whose arguments are deleted after it (`eval.c:277-413`) |
| `DeleteVariable`, `Clear` | `delete("q")`, `clear()` (`variable.c:308-350, 538`), commands in an expression like others |
| `Assign` | the end of a statement with an expression; the temporary becomes the variable (`var_rename`, `variable.c:158`, `put_result`, `eval.c:909`) |
| `AssignElements` | the same with indexes on its left side (`put_values`, `eval.c:763`) |
| `BeginBlock`, `EndBlock` | `if` and `while`, whose condition is kept until the block is done (`eval.c:640-720`) |
| `Call` | a function in an expression, with or without an argument, up to its body (`funcs.c:268-334`) |
| `Return` | from the end of the body to the result, a temporary of the caller's expression, which goes on (`funcs.c:335-388`) |
| `Error` | `error()`, `mem_free_all` and the return to `setjmp` (`error.c:91`, `matc.c:980, 297`), between any two steps |
| `NewCall` | the next call of `mtc_domath` (`matc.c:248`) |

*Abstractions.* A value is a member of `Contents`; of two values the statements tell apart the size only
(`var_rename` copies in place when the sizes agree, `put_values` when the variable is large enough).
`malloc` gives any free address, and a step has room (`Room`) for what it allocates. A temporary is the
reference to a matrix that it holds, or none; a step takes up to two of them and leaves one, `MaxTemps`
bounds them. An error leaves the references of the temporaries: `lost` counts those for each matrix, and
`MaxLost` bounds them, as well as the matrices concerned. A function has at most one parameter, one import,
one export and one result; its body is any sequence of statements, and may call it again up to `MaxDepth`.

`touched` says that the call may have changed the list it began with: by a statement at its level, `delete`,
`clear` or an export out of the outermost function, the last three in the middle of an expression. With
`LateErrors` FALSE there are no errors from then on until the end of the call. With TRUE there are, and they
go back to freed memory when the change has freed the head of the list: this is the run `matc_recovery`
(section 4). `IndexShared` says whether an indexed assignment may meet a shared matrix; then the copy
`put_values` makes has the count zero.

*Left out.* Constants of the parse tree, whose matrices the tree keeps and the temporaries share; `for` loops,
which assign to their variable in place; several arguments, indexes, imports and exports; `source`, `eval`
and the other ways to a nested call; `CONSTANTS`; the parser.

### GuiSession

The handlers of the main window, which the event loop runs one at a time, and beside them one meshing
thread and four processes.

| Action | Code (`mainwindow.cpp`, where no file is named) |
|---|---|
| `Open` | `openSlot` (1485-1727) with `readInputFile`, which reads a file for Tetgen into `in` whether or not the thread runs (1566-1586) |
| `Remesh` | `remeshSlot` (5280-5527); Netgen loads the file anew into the geometry it gives to the thread |
| `StopMeshing`, `ThreadEnds` | `stopMeshingSlot` (5531), the end of `run` (`meshingthread.cpp:111`); `finished()` is queued |
| `MeshingFinished` | `meshingFinishedSlot` (5593-5651) |
| `Load`, `SaveMesh` | `loadElmerMesh` (1777-1808), `saveAsSlot` (1812) and saving a project |
| `Settings` | the window of the parallel settings, open beside the others |
| `RunSolver`, `SaveAndRun` | `runsolverSlot` (6589-6680), `saveAndRun` (8188) |
| `SplitterFinished`, `SolverFinished` | 6684-6729, 6992-6999 |
| `SolverStdout` | `solverStdoutSlot` (6871-6977) |
| `Results`, `ShowVtkPost`, `UnifierFinished`, `PostFinished` | 7036-7164, 5065-5143, 6755-6845, 7168-7174 |

*Abstractions.* A process is idle or runs, for what it was started; `start` may be refused (QProcess does
so while the program runs) or fail. `mesh` tells a mesh that was made from none and from the address of one
that was deleted. Whether an input can be meshed, a file loaded or a result file found is a choice. What an input file
holds is a member of `Geometries`: `opened` is that of the file opened last, `in` the `tetgenio` that the
window and the thread share, `nggeom` the geometry of Netgen. `Meshed` is what `MeshingThread::run` works on.
Reading a file into `in` is one step, although a thread beside it may see a part of the new file.
Output is a sequence of letters and newlines; a chunk has up to `MaxChunk` characters, and a line that has not
ended up to `MaxPartial`. Where the loop at 6897 reads before the begin of a text of newlines, the character
is taken for another one. Killing a process or the thread is its end, with the handler that follows.

*Left out.* The user-defined solver compiler, ParaView, the options -o, -e and -nogui, the operations
applied to a mesh, closing the window, builds without VTK, the convergence plot. A process that is
starting counts as running.

## 4. Runs

All runs are exhaustive. Deadlock is checked in all of them but those of `MatcVariables`, which stop when
a bound on the memory or on lost references leaves nothing to do. `Terminated` is the only way the others
stop; a session of ElmerGUI never does.

| Run | Shows | Bounds and why they are enough |
|---|---|---|
| `fixed_steps` | `HistoryMatchesSizes`, `SavedFieldsAreCurrent`, `LastStateWritten` | intervals of 3, 0, 2 and 2 steps with sizes {2,4}, {2,6}, {4} and output every 2nd, 1st, never, 2nd step; nine solvers, one of every slot, a third order history, one that skips the first step, one executed every second step. The sizes change inside an interval and between intervals, more steps than the order are taken, and the last step is and is not saved |
| `adaptive_steps` | `TypeOK`, `SolutionAtClock`, `SubStepsFit`, `SavesAdvance`, `MarchSpec`, `RejectRestores`, `Termination` | timesteps of 8, 8 and 6 or 12 with minimum 2, maximum 8: up to two reductions below each, clipping, the "smart" split, a carried-over sub-step larger than the next timestep |
| `divergence_control` | `SolutionAtClock`, `Termination` | the same timesteps, any subset of the solvers diverging in each trial and after it |
| `steady_state` | `LastStateWritten`, `MarchSpec` | nine iterations, output every third, steady state at any of them |
| `coupled_iteration` | `TypeOK`, `RanksAgree`, `ConvergedInOnePass`, `OthersConverged` | three ranks, five solvers (on all ranks, on one, in another slot, without a matrix, one that waits for the others), passes 1 to 4 with convergence tested from the 2nd |
| `colour_rounds` | `TypeOK`, `SettledDiffer`, `ColoursInRange`, `FreeAfterOneRound`, `NoNewClashes`, `Termination` | eight elements with up to three neighbours, three threads with three, three and two of them; one and several parallel rounds occur, and chains of clashes for the single thread |
| `list_matrix` | `TypeOK`, `RowExclusive`, `ListsAscend`, `DegreeCounts`, `AssemblesPattern`, `Termination` | two threads, six rows, four elements of two or three unknowns that overlap like a strip of a mesh; not coloured (with locks), in two colours and in three; connections that are there already, before the head, at the end and inside of a row |
| `matc_variables` | `TypeOK`, `RefCounts`, `NoDangling`, `UniqueNames` | three variables and three matrices, values of two sizes, four names in their order (the result, the parameter, `ans`, an exported and imported one), two temporaries, one level of calls, one matrix with a lost reference; 1.03 million states. The lists of the caller and of the function are both in use, a matrix may be shared by caller, parameter and temporary, errors come in both lists, and in an expression in which a function has returned. Addresses are symmetric: the module picks free ones and compares them only for equality |
| `gui_session` | `TypeOK`, `ViewerAsked`, `Killable`, `WholeLines`, `JobStays`, `MeshingEnds` | all generators, automatic meshing, every parallel setting; files that hold a geometry or cannot be read, opened in any order before, during and after meshing; chunks of up to three characters and kept lines of up to two, so that newlines come first, last, alone, doubled and in the middle of a chunk, with one letter, so that lines differ by number and length; 629,112 states |

`VertexPerThread` is 100 in the code. The colouring runs scale it to 1, so that small graphs have the
rounds that the code takes when clashes outnumber 100 vertices for each thread; behaviours with one
round and a repair, the usual ones in the code, are among them.

`Double` and `Halve` in `MCTimeStepping` are the default coefficients 2.0 and 0.5 on even ticks.

*Fairness.* `FairSpec` is `WF_vars(Next)`: the time loop is one sequential program without waiting, so
it does not stop between two statements. Nothing is assumed of the choices: `Termination` holds for
solvers that never become accurate and for those that always diverge (which ends in `fatal`).
`FairSpec` of `GraphColour` is weak fairness of each thread, which OpenMP needs to get any loop done, and
of the two barriers; that the rounds end is not assumed: the smallest vertex of a round never clashes
again.
`ListMatrixArray` has weak fairness of each thread and of the barriers; a lock may be got by any of those
that wait for it, and no thread gets it for ever since the calls of an element are finitely many.
`FairSpec` of `GuiSession` has weak fairness of `ThreadEnds` and `MeshingFinished`: a generator comes to its
end and the event loop gets to every signal. Nothing is assumed of the user or of the programs.
`CoupledSolve` is checked for deadlocks instead: its passes are bounded by the keyword.
Its run is without 'Convergence Control Within Iterations', with which every rank follows its own flag;
what holds with that keyword is shown by proof (section 5).

Three more runs are expected to violate their property. Each states what a comment of the code says
and shows a behaviour that differs (`findings` in `PROJECT.json`):

| Run | Comment | Behaviour |
|---|---|---|
| `colour_races` | "Check that colouring is free of race conditions" (`DefUtils.F90:7989`) | `fc` is not cleared between the rounds (`MeshUtils.F90:17351, 17356`); a vertex that the same thread colours in a second parallel round or after one may find all colours marked and keeps the one that clashes |
| `matc_sharing` | "copy VARIABLE from one place to another" (`eval.c:912`) | an assignment of the same size is copied into the matrix of the variable, whoever else shares it (`variable.c:190`): a function that assigns to its parameter changes its caller's variable |
| `matc_recovery` | "setjmp() function is used for error recovery. Memory allocated during the lifetime of this function is collected to a list" (`matc.c:323-326`) | the head of the list saved before the call is put back (`matc.c:298`) although the call has freed that variable, by `clear`, `delete`, the deletion of `ans`, or a function that exports over it: after `x=1` the call `f(1)+nosuch`, with `f` exporting `x`, leaves `VAR_HEAD` at freed memory |

After one parallel round this does not happen (`FreeAfterOneRound`): a colour that a neighbour gave up
was the colour of a smaller neighbour of that one too, so the single thread has overwritten the old
mark before it comes to the vertex.

`mutants` in `PROJECT.json` names, for each property of each passing run, an operator marked "Slip" in
the module that breaks it.

## 5. Proofs

The proof modules hold for every value of the constants that the named assumptions allow.

`TimeSteppingProofs`:

- `TypeCorrect`: `Spec => []TypeOK`. `TypeOK` is not inductive: that a size is positive and even
  needs that `ddt` does not exceed the maximum of the timestep (only there `Increase` and `Decrease`
  are assumed to give sizes) and that `CumTime` does not pass the end of the timestep. `TypeInv` adds
  this; there is a lemma for each action.
- `SubStepBounds`: `Spec => []SubStepsFit`, from the same invariant.
- `SolutionFollowsClock`: `Spec => []SolutionAtClock`. `SolutionInv` adds, for runs that are neither
  rough nor start at zero, how the clock is related to `start`, `CumTime` and `ddt` at each place, and
  what the values, the newest history and the kept copy of an integrating solver are between a trial
  and its judgement. It rests on lemmas about `InitializeTimestep`, `Activate` and `SolveEquations`.

`TimeMarchProofs`, which extends it:

- `RejectedTrialsLeaveNoTrace`: `Control # "divergence"` implies `Spec => RejectRestores`. With divergence
  control a refused trial leaves the histories shifted once more, so the assumption is needed.
- `OutputAdvances`: `Spec => []SavesAdvance`. The clock may be ahead of the accepted instant during a trial
  and is set back; `TrialClock` says how far, also for rough steps and a late start. `SaveTimes` says that
  what is written is not later than the clock, and earlier if `LastSaved` is not set; `NoneSaved` that
  nothing is written before the first step.
- `LastIsWritten`: `Spec => []LastStateWritten`, from `LastInv`: when `LastSaved` is set between two steps,
  the last record is the present state.
- `OutputIsCurrent`: `~Rough` and `~StartZero` imply `Spec => []SavedFieldsAreCurrent`. `CurrentInv` says
  where in the loop a solver that follows the clock has the value of the accepted instant and where that
  of the trial. Both assumptions are needed by the part for integrating solvers (`SolutionAtClock`): a rough
  sub-step passes the end of its timestep and the clock is set back, and with 'Timestep Start Zero' the
  first step is made without moving the clock.
- `LoopMarches`: the same assumptions imply `Spec => MarchSpec`. Every step is classified as one of `Stays`,
  `Moves`, `Writes` and `Ends`, each of which is a stutter or an action of `TimeMarch`.
- `HistoryFollowsLadder`: `Spec => []HistoryMatchesSizes`. While a step is made, the ladder of sizes has
  moved and the histories have not (`SpacedBefore`, `SpacedAfter`).

`CoupledSolveProofs`:

- `CoupledTypeCorrect`: `Spec => []TypeOK`. A started solver is one of the case's because the least
  element of a set of numbers exists (`WFMin`), and a pass is begun only before the last.
- `RanksMeet`: `~ TestDivergence` implies `Spec => []RanksAgree`. The invariant says that either all
  ranks are in a solver and at the same place, or all are between two calls and of any two one is at
  the place of the other or exactly one move ahead (`Together`, with `LeavesAt`, `NextPass`,
  `NextSolver` and `NextDone` for the move, which depends on the place alone).
- `RanksMeetAtCuts`: `TestDivergence` and `AllTakePart` imply `Spec => []RanksAgree`. With divergence tests
  the pass is left after a solver (`MainUtils.F90:3449`), so that only the first one is ever executed, and
  each rank goes on by its own flag. `CutInv` is the invariant of before with the flag as a part of the
  place. `AllTakePart`, that the first solver is on all ranks, is needed: without it a rank that does
  not see the solver diverge goes on alone.
- `LeftConverged` and `WaitsForOthers`: `Spec => []ConvergedInOnePass` and `Spec => []OthersConverged`.
  Without divergence tests `FoundInv` says that what is done in a pass was found done in that pass by the
  ranks that solve it; a solver comes up once in a pass, so nothing is overwritten. With them `NoneDone`
  says that no solver is ever done, and a loop is left early by divergence only.

`GraphColourProofs`:

- `ColourTypeCorrect`: `Spec => []TypeOK`, that is, no thread marks, gives or reads beyond its arrays.
- `SettledNeverClash`: `Spec => []SettledDiffer`, for any interleaving. `SettledDiffer` alone does not
  survive `Collect`: a vertex of the round that is not collected must differ from smaller neighbours
  (its own test), from larger ones of the round (their test) and from larger settled ones, which
  nobody tests. `LaterDiffer` says that those differ anyway, because a settled colour is stable and
  the thread has read it: `MarksRead` and `ReadBounded` carry that through the loop.
- `RepairMakesNoClash`: `Spec => NoNewClashes`, an action property. `AloneInv` says that in the single
  phase one thread has all the work and its marks cover every neighbour it has read.
- `ColoursAreInRange`: `Spec => []ColoursInRange`. `RoundInv` says that every colour given is counted in `nc`
  and that after the first round every vertex has one.
- `OneRoundIsFree`: `Spec => []FreeAfterOneRound`. `RepairInv` says of the single phase after one round that
  what is marked for a vertex is the colour of a neighbour, that the colour a vertex is about to give up
  leaves no mark without a neighbour that keeps it (`Harmless`), and that vertices which do not wait to be
  coloured again do not clash (`Cured`).

`ListMatrixArrayProofs`:

- `AssemblyTypeCorrect`: `Spec => []TypeOK`: no pointer leads nowhere and no thread gives back a lock of
  another. `TypeInv` adds that nobody holds a lock when there is no locking.
- `RowsAreExclusive`: `ColoursApart` implies `Spec => []RowExclusive`. Without colours the thread in a row
  holds its lock (`LocksHeld`). With colours, the rows that the threads still have to visit are disjoint,
  from one another and from the elements that nobody has taken (`ColoursHeld`). After the region only the
  first thread has calls (`AloneAfter`).
- `ListsStaySorted`: `ColoursApart` and `Distinct` imply `Spec => []ListsAscend`. A thread inserts behind the
  entry it has found some steps before; `AscendInv` says that the place is still one (`PlaceHeld`), which
  needs that entries belong to rows (`EntriesOwned`), that threads are in different rows (the theorem
  before) and that a pool never hands out an entry in use (`PoolsFresh`). `Distinct`, that the unknowns of
  an element are all different, is needed: with an unknown twice, the column is compared with the entry behind its place only
  and gets two entries (`ListMatrixArray.F90:349`).

`SparsityPatternProofs`, which extends it, under the same two assumptions:

- `DegreesAreLengths`: `Spec => []DegreeCounts`. `Path` is a recursive function along the lists; that it
  reaches every entry of a row is shown by induction over the entries that are left, which the prover does
  with `Induction`, a lemma about a set of numbers that rests on the existence of a least one
  (`WFMin`). `InOrder` is what makes the induction go: each entry leads to the one with the next larger
  column of its row, the head is the first, and no column is twice in a row. `FillInv` adds that a degree is
  the number of entries of the row.
- `PatternIsAssembled`: `Spec => AssemblesPattern`. By the same induction the pattern is what the entries
  say (`PatternIsContents`), so that an entry put in adds exactly its connection and no other step
  changes the pattern. `CoverInv` says that what the elements need is there or awaited: in an element not
  taken, in a call not made or among the columns still to come of a call being made.

`ColoursApart` says of unknowns what `GraphColour` gives for nodes. It is an assumption on the mesh: with
'Apply Conforming BCs' the colours do not know which nodes share an unknown.

`MatcVariablesProofs`, all under `~LateErrors` and `~IndexShared`, the way the passing run is set; section 3
tells what goes wrong with each of them. The other assumptions are on the constants (`FiniteMemory`,
`NullIsNone` and the like):

- `MatcInvariant`: `Spec => []MatcInv`. The four invariants need one another: that a matrix is not freed
  under a variable needs the counts, the counts need that the variables are those in the lists, and this
  needs that a list has a name once, so that the variable taken out is the one found. `MatcInv` says that
  the current list and those of the callers have no variable in common and are all that is allocated
  (`Listed`, `CallersApart`), that a count is the number of sharers and of other references (`Balance` with
  `Owed`: what the temporaries hold and what errors have lost), and, for `error()`, that the memory of the
  call is exactly what the list the call began with does not use (`RecentInv`), as long as the call has not
  touched that list. Each operation has a lemma that ends in `Sound`; a step of an expression is one of these
  that leaves a temporary (`StepSound`, `LeaveSound`), a statement one that ends them (`StatementSound`). The
  lists change by `Removed` and `Inserted`, of which the lemmas about sequences speak.
- `TypesAreKept`, `CountsAreRight`, `NothingDangles`, `NamesAreUnique`: `TypeOK`, `RefCounts`, `NoDangling`,
  `UniqueNames`, as consequences. `NothingDangles` holds through errors between any two steps: in an
  expression, in a block, in a function, and in the expression that goes on after a function has returned.
  Errors after the call has touched its list are excluded by `~LateErrors`, and there it is false.

`GuiSessionProofs`:

- `SessionTypeCorrect`: `Spec => []TypeOK`. The part that needs an argument is that no newline is kept
  (`SavedIsPartial`): what is kept begins behind the last newline of the text (`LastNewlineIsLast`), which
  exists if any does (`LastExists`).
- `ThreadKeepsItsJob`: `Spec => JobStays`, an action property, from `Guarded`: the menu item is enabled
  exactly when the thread is idle and its signal has been handled. The thread itself accepts a job at any
  time. It keeps its generator and what it meshes, except that another file for Tetgen replaces the input of
  a running Tetgen; the property says that nothing else does.
- `ResultsGoWhereAsked` and `ProgramsCanBeKilled`: `Spec => []ViewerAsked`, `Spec => []Killable`. Both are
  inductive; each handler that starts or ends a program keeps them whether or not the start succeeds.
- `NoLineIsLost`: `Spec => []WholeLines`, from the type invariant. Two texts have the same lines when one is
  the other with newlines put in at its begin or behind a newline (`Padded`): places of line starts
  correspond (`Place`), a line is the same in both, and so is its number, because the correspondence is a
  bijection. What is shown and kept is the text without some such newlines (`ShownPadded`), or, when
  nothing has ended, the text itself behind one (`NewlinePadded`).

The proofs use that the smallest of some natural numbers exists (`WFMin`) and that a largest degree
exists (`MaxDegreeType`). `FreeOfRaces` and `AssignmentIsCopy` are not proved because they are false, as the
runs of section 4 show, and so are `ListsAscend` without `Distinct` and `NoDangling` with `LateErrors`.

*Only model-checked*: the liveness properties, `Termination` of three modules and `MeshingEnds` (fairness and
`ENABLED` are out of the prover's reach), and the absence of deadlock. *Not shown at all*: anything about floating
point numbers, the accuracy of a solution, or the parts listed as left out.

## 6. Not modelled

Most of the repository is no subject for these models. In lines, the largest parts are vendored libraries
(tetgen, metis, umfpack, LAPACK, Lua, mumps) and, twice, the sources of ElmerGrid, which ElmerGUI includes
as a plugin. The other reasons:

- linear and eigen solvers, element integrals, time integration formulas, physical models: floating point
  arithmetic; what the control takes from them is a choice in the models;
- ElmerGrid, meshgen2d, refinement, view factors, ElmerPost and the VTK views: sequential programs from
  geometry to geometry or to the screen, without steps that others can come between;
- editors and the generator of command files in ElmerGUI: forms, converted in one go; the parser and the
  commands of MATC and the Lua interpreter: sequential functions of their input;
- planned and not done: items 7 to 11 of section 2;
- inside the modelled files, what section 3 lists as left out.

Some behaviours that were noticed on the way and are not stated as properties: an element with two nodes of
one unknown ('Apply Conforming BCs', `Lists.F90:698`) gets two entries for one column in a row, both counted
(`ListMatrixArray.F90:349, 371`), where 348 says "Do not add duplicates"; with 'Output File Final
Only' and an unsaved last step the result file stays empty (`ElmerSolver.F90:3582`); the announced number of
saves does not take a last interval without output into account (1139); the solvers after the timestep shift
every history once more in an adaptive sub-step (3321); with 'Convergence Control Within Iterations' a rank
that is not active in a diverging solver goes on alone (`MainUtils.F90:3448`); a file that is opened while
the meshing thread works changes which generator's mesh is made at its end (`mainwindow.cpp:5601`). That such
a file also replaces the input of a running Tetgen (1566) is part of `JobStays`.
