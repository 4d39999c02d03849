---------------------------- MODULE CoupledSolve ----------------------------
(***************************************************************************)
(* The coupled system iteration of one timestep, SolveCoupled in           *)
(* SolveEquations (fem/src/MainUtils.F90), run by every MPI rank.  In each *)
(* pass the solvers of the loop are executed in their order, until all are *)
(* done in one pass or the passes are used up.  A solver is executed by    *)
(* the ranks that hold a part of its domain, the others only take part in  *)
(* the calls that concern all ranks: ParallelActive before a solver, which *)
(* tells who is active, and ParallelAllReduceAnd after it, which makes the *)
(* verdict on its convergence a common one.                                *)
(*                                                                         *)
(* A collective call completes when all ranks of the communicator are in   *)
(* it.  A rank that leaves the loop, or is in another one, does not come:  *)
(* the others wait for ever.  Between two of them a rank is on its own.    *)
(***************************************************************************)
EXTENDS Integers, FiniteSets

CONSTANTS
    Rank,             \* the MPI ranks, ELMER_COMM_WORLD
    NumberOfSolvers,  \* the solvers are numbered in the order of the command file
    Coupled,          \* those with a procedure, executed "always" and not skipped in this step
    AfterConverged,   \* those with 'Coupled System After Others Converged'
    Active,           \* Active[k]: the ranks with rows in the matrix of k, {} without a matrix
    Tolerance,        \* those with 'Steady State Convergence Tolerance'
    Relaxed,          \* those with 'Steady State Relaxation Factor'
    Refined,          \* those whose mesh is adapted
    SimulationType,   \* "transient", "scanning" or "steady"
    CoupledMinIter,   \* keyword 'Steady State Min Iterations'
    CoupledMaxIter,   \* keyword 'Steady State Max Iterations'
    TestDivergence,   \* keyword 'Convergence Control Within Iterations'
    CoupledAbort      \* keyword 'Coupled System Abort Not Converged'

Solvers == 1 .. NumberOfSolvers

ASSUME RankAssumption == Rank # {}

ASSUME SolverAssumption ==
    /\ NumberOfSolvers \in Nat \ {0}
    /\ \A S \in {Coupled, AfterConverged, Tolerance, Relaxed, Refined} : S \subseteq Solvers
    /\ Active \in [Solvers -> SUBSET Rank]

\* Some solver of the loop does not wait for the others.
ASSUME IterationAssumption ==
    /\ Coupled \ AfterConverged # {}
    /\ SimulationType \in {"transient", "scanning", "steady"}
    /\ CoupledMinIter \in Nat /\ CoupledMaxIter \in Nat \ {0}
    /\ SimulationType = "steady" => CoupledMaxIter = 1
    /\ TestDivergence \in BOOLEAN /\ CoupledAbort \in BOOLEAN

VARIABLES
    at,        \* at[r]: where rank r is
    pass,      \* pass[r]: i, the coupled iteration
    solver,    \* solver[r]: k, the solver last started in the pass, 0 for none
    done,      \* done[r]: the solvers k with DoneThis(k)
    diverged,  \* diverged[r]: DivergenceExit
    verdict,   \* verdict[r][k]: DoneThis(k) as rank r found it, and in which pass
    finished   \* finished[r]: the solvers with Solver % Mesh % AdaptiveFinished

vars == <<at, pass, solver, done, diverged, verdict, finished>>

-----------------------------------------------------------------------------
(* Which solver is next. *)

\* The solvers passed over before k: no procedure, another slot, first step.
\* They count as done.
SkippedBefore(k) == {j \in Solvers : j < k} \ Coupled

\* Slip: a solver does not wait for the others.
ReadyAtOnce(d, k) == k \in Coupled

\* Solver k is executed when it is reached with the solvers d done so far.
Ready(d, k) ==
    /\ k \in Coupled
    /\ k \in AfterConverged => Solvers \subseteq AfterConverged \cup d \cup SkippedBefore(k)

\* The solvers after k that are executed if nothing else gets done before.
Candidates(d, k) == {j \in Solvers : j > k /\ Ready(d, j)}

FirstOf(S) == CHOOSE j \in S : \A i \in S : j <= i

AllDone(d) == Solvers \subseteq d

\* The pass of r is over: the solvers are used up, or it was left ("cut").
PassOver(r) ==
    \/ at[r] = "cut"
    \/ at[r] = "next" /\ Candidates(done[r], solver[r]) = {}

\* The solvers that count as done when the pass of r is over.
DoneAtEnd(r) == IF at[r] = "cut" THEN done[r]
                ELSE done[r] \cup SkippedBefore(NumberOfSolvers + 1)

\* Slip: one pass too many.
LeavesLate(r) ==
    \/ at[r] = "next" /\ AllDone(done[r])
    \/ PassOver(r) /\ (diverged[r] \/ AllDone(DoneAtEnd(r)) \/ pass[r] > CoupledMaxIter)

\* The loop over the passes is left: all are done after a solver or at the end of
\* the pass, a solver diverged, or this was the last pass.
Leaves(r) ==
    \/ at[r] = "next" /\ AllDone(done[r])
    \/ PassOver(r) /\ (diverged[r] \/ AllDone(DoneAtEnd(r)) \/ pass[r] = CoupledMaxIter)

\* The coupled system did not converge and this is an error.  TestConvergence is
\* the one of the last solver, in the last pass; it is not set when divergence
\* is tested.
NotConverged(r) ==
    /\ SimulationType = "transient" /\ CoupledAbort
    /\ CoupledMaxIter > 1 /\ CoupledMaxIter >= CoupledMinIter /\ ~ TestDivergence
    /\ ~ AllDone(done[r]) /\ ~ AllDone(DoneAtEnd(r))

-----------------------------------------------------------------------------
Init ==
    /\ at = [r \in Rank |-> "next"]
    /\ pass = [r \in Rank |-> 1]
    /\ solver = [r \in Rank |-> 0]
    /\ done = [r \in Rank |-> {}]
    /\ diverged = [r \in Rank |-> FALSE]
    /\ verdict = [r \in Rank |-> [k \in Solvers |-> [pass |-> 0, done |-> FALSE]]]
    /\ finished = [r \in Rank |-> {}]

(* What a rank does on its own. *)

Start(r, p, k, d) ==
    /\ at' = [at EXCEPT ![r] = "active"]
    /\ pass' = [pass EXCEPT ![r] = p]
    /\ solver' = [solver EXCEPT ![r] = k]
    /\ done' = [done EXCEPT ![r] = d \cup SkippedBefore(k)]
    /\ UNCHANGED <<diverged, verdict, finished>>

\* The next solver of the pass; the rank waits in ParallelActive.
StartSolver(r) ==
    /\ at[r] = "next" /\ ~ Leaves(r) /\ ~ PassOver(r)
    /\ Start(r, pass[r], FirstOf(Candidates(done[r], solver[r])), done[r])

\* The first solver of the next pass, in which none is done yet.
StartPass(r) ==
    /\ PassOver(r) /\ ~ Leaves(r)
    /\ Start(r, pass[r] + 1, FirstOf(Candidates({}, 0)), {})

Leave(r) ==
    /\ Leaves(r)
    /\ at' = [at EXCEPT ![r] = IF NotConverged(r) THEN "fatal" ELSE "left"]
    /\ UNCHANGED <<pass, solver, done, diverged, verdict, finished>>

\* Whether the convergence of solver k is tested in pass p.
TestConvergence(k, p) ==
    CASE SimulationType = "steady" -> TRUE
      [] SimulationType # "steady" /\ CoupledMaxIter = 1 -> k \in Relaxed
      [] OTHER -> p >= CoupledMinIter

\* A rank without a part of the domain of the solver returns from SolverActivate at
\* once and takes the solver for converged.
Bystand(r) ==
    LET k == solver[r]
    IN  /\ at[r] = "bystand"
        /\ at' = [at EXCEPT ![r] = IF TestDivergence THEN "cut" ELSE "reduce"]
        /\ verdict' = [verdict EXCEPT ![r][k] =
                         [pass |-> pass[r],
                          done |-> TestConvergence(k, pass[r]) \/ k \in finished[r]]]
        /\ UNCHANGED <<pass, solver, done, diverged, finished>>

(* What the ranks do together. *)

\* ParallelActive: every rank learns which ranks are active in the solver.  Those
\* go on to solve, or all of them if the solver has no matrix.
Activate ==
    LET active == {r \in Rank : r \in Active[solver[r]]}
    IN  /\ \A r \in Rank : at[r] = "active"
        /\ at' = [r \in Rank |-> IF r \in active \/ active = {} THEN "solve" ELSE "bystand"]
        /\ UNCHANGED <<pass, solver, done, diverged, verdict, finished>>

\* The active ranks solve and compute the change of the norm together, on their
\* communicator: they come to the same result.  Without a tolerance the flag
\* SteadyConverged keeps its first value, -1, which counts as converged.
Solve ==
    LET members == {r \in Rank : at[r] = "solve"}
        k(r)    == solver[r]
    IN  /\ members # {}
        /\ \E bad, converged, refined \in BOOLEAN :
            LET fin(r) == finished[r] \cup (IF refined THEN {k(r)} \cap Refined ELSE {})
            IN  /\ bad => TestDivergence
                /\ \A r \in members : k(r) \notin Tolerance => converged
                /\ verdict' = [r \in Rank |->
                     IF r \notin members THEN verdict[r]
                     ELSE [verdict[r] EXCEPT ![k(r)] =
                             [pass |-> pass[r],
                              done |-> \/ TestConvergence(k(r), pass[r]) /\ converged
                                       \/ k(r) \in fin(r)]]]
                /\ finished' = [r \in Rank |-> IF r \in members THEN fin(r) ELSE finished[r]]
                /\ diverged' = [r \in Rank |-> IF r \in members THEN bad ELSE diverged[r]]
        /\ at' = [r \in Rank |-> IF r \notin members THEN at[r]
                                 ELSE IF TestDivergence THEN "cut" ELSE "reduce"]
        /\ UNCHANGED <<pass, solver, done>>

\* Slip: every rank goes by its own verdict.
OwnVerdict(r) == verdict[r][solver[r]].done

\* Slip: the verdicts are combined by "or".
SomeVerdict(r) == \E s \in Rank : verdict[s][solver[s]].done

\* ParallelAllReduceAnd: the solver is done when it is on all ranks.
CommonVerdict(r) == \A s \in Rank : verdict[s][solver[s]].done

Reduce ==
    /\ \A r \in Rank : at[r] = "reduce"
    /\ at' = [r \in Rank |-> "next"]
    /\ done' = [r \in Rank |-> IF CommonVerdict(r) THEN done[r] \cup {solver[r]}
                                                   ELSE done[r] \ {solver[r]}]
    /\ UNCHANGED <<pass, solver, diverged, verdict, finished>>

Terminated == (\A r \in Rank : at[r] \in {"left", "fatal"}) /\ UNCHANGED vars

-----------------------------------------------------------------------------
Local(r) == StartSolver(r) \/ StartPass(r) \/ Leave(r) \/ Bystand(r)

Next == (\E r \in Rank : Local(r)) \/ Activate \/ Solve \/ Reduce \/ Terminated

Spec == Init /\ [][Next]_vars

-----------------------------------------------------------------------------
(* Properties. *)

TypeOK ==
    /\ at \in [Rank -> {"next", "cut", "active", "solve", "bystand", "reduce", "left", "fatal"}]
    /\ pass \in [Rank -> 1 .. CoupledMaxIter]
    /\ solver \in [Rank -> 0 .. NumberOfSolvers]
    /\ done \in [Rank -> SUBSET Solvers]
    /\ diverged \in [Rank -> BOOLEAN]
    /\ verdict \in [Rank -> [Solvers -> [pass : 0 .. CoupledMaxIter, done : BOOLEAN]]]
    /\ finished \in [Rank -> SUBSET Solvers]

\* The ranks that wait in a call that concerns all of them, or have left the loop.
Settled == {r \in Rank : at[r] \in {"active", "reduce", "left", "fatal"}}

\* Ranks that wait for one another wait in the same call, for the same solver of the
\* same pass, with the same solvers done, and none has left the loop: no rank
\* decides on its own how the loop goes on, although not all of them execute
\* every solver.
RanksAgree ==
    \A r, s \in Settled :
        at[r] # "reduce" => /\ at[s] \in {at[r], "reduce"}
                            /\ at[s] = at[r] => /\ pass[s] = pass[r] /\ solver[s] = solver[r]
                                                /\ done[s] = done[r]

\* The ranks that solve k.
Members(k) == IF Active[k] = {} THEN Rank ELSE Active[k]

\* Solver k was executed in pass p and the ranks that solve it found it converged, or
\* the refinement of its mesh finished, which counts as well.
FoundDone(k, p) == \A r \in Members(k) : verdict[r][k].pass = p /\ verdict[r][k].done

\* The loop is left before its last pass only when every solver was executed and
\* found converged in one and the same pass, by the ranks that solve it: ranks
\* without a part of it and results of an earlier pass decide nothing.
ConvergedInOnePass ==
    \A r \in Rank : at[r] = "left" /\ pass[r] < CoupledMaxIter /\ ~ diverged[r]
        => \A k \in Coupled : FoundDone(k, pass[r])

\* A solver that is to run after the others converged starts from solutions that
\* were found converged in the same pass.
OthersConverged ==
    \A r \in Rank : at[r] = "solve" /\ solver[r] \in AfterConverged
        => \A k \in Coupled \ AfterConverged : FoundDone(k, pass[r])
=============================================================================
