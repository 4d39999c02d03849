------------------------- MODULE CoupledSolveProofs -------------------------
(***************************************************************************)
(* Proofs about the coupled system iteration, for any ranks, any solvers   *)
(* and any distribution of them over the ranks.                            *)
(***************************************************************************)
EXTENDS CoupledSolve, WellFoundedInduction, TLAPS

-----------------------------------------------------------------------------
(* Where a rank goes from where it is. *)

\* The first of some solvers is one of them.
LEMMA FirstIn ==
    ASSUME NEW S, S \subseteq Solvers, S # {}
    PROVE  FirstOf(S) \in S
<1>1. S \subseteq Nat
  BY SolverAssumption DEF Solvers
<1>2. PICK j \in S : \A i \in S : <<i, j>> \notin OpToRel(<, Nat)
  BY <1>1, WFMin, NatLessThanWellFounded, Zenon
<1>3. \A i \in S : ~ (i < j)
  BY <1>1, <1>2, Zenon DEF OpToRel
<1>4. \A i \in S : j <= i
  BY <1>1, <1>3
<1> QED
  BY <1>4 DEF FirstOf

\* Whether a rank with the solvers d done up to k in pass p leaves the loop, and else
\* the pass and the solver it goes on to and what is done then.
LeavesAt(p, k, d) ==
    \/ AllDone(d)
    \/ /\ Candidates(d, k) = {}
       /\ AllDone(d \cup SkippedBefore(NumberOfSolvers + 1)) \/ p = CoupledMaxIter

NextPass(p, k, d) == IF Candidates(d, k) = {} THEN p + 1 ELSE p

NextSolver(k, d) == IF Candidates(d, k) = {} THEN FirstOf(Candidates({}, 0))
                                             ELSE FirstOf(Candidates(d, k))

NextDone(k, d) == (IF Candidates(d, k) = {} THEN {} ELSE d) \cup SkippedBefore(NextSolver(k, d))

EndsIn(d) ==
    IF /\ SimulationType = "transient" /\ CoupledAbort
       /\ CoupledMaxIter > 1 /\ CoupledMaxIter >= CoupledMinIter
       /\ ~ AllDone(d) /\ ~ AllDone(d \cup SkippedBefore(NumberOfSolvers + 1))
    THEN "fatal" ELSE "left"

\* A new pass has a first solver: one that does not wait for the others.
LEMMA PassHasFirst == Candidates({}, 0) # {}
  BY IterationAssumption, SolverAssumption DEF Candidates, Ready, Solvers

-----------------------------------------------------------------------------
(* Every step keeps the types. *)

Places == {"next", "cut", "active", "solve", "bystand", "reduce", "left", "fatal"}

\* A rank that waits for a solver or is in one has started one.
TypeInv ==
    /\ TypeOK
    /\ \A r \in Rank : at[r] \in {"active", "solve", "bystand", "reduce"} => solver[r] \in Solvers

LEMMA InitType == Init => TypeInv
  BY SolverAssumption, IterationAssumption DEF Init, TypeInv, TypeOK, Solvers

LEMMA StartType ==
    ASSUME TypeInv, NEW r \in Rank, NEW p \in 1 .. CoupledMaxIter, NEW k \in Solvers,
           NEW d \in SUBSET Solvers, Start(r, p, k, d)
    PROVE  TypeInv'
<1>1. k \in 0 .. NumberOfSolvers
  BY SolverAssumption DEF Solvers
<1>2. d \cup SkippedBefore(k) \in SUBSET Solvers
  BY DEF SkippedBefore
<1>3. TypeOK'
  BY <1>1, <1>2 DEF Start, TypeInv, TypeOK
<1>4. \A s \in Rank : at'[s] \in {"active", "solve", "bystand", "reduce"} => solver'[s] \in Solvers
  BY DEF Start, TypeInv, TypeOK
<1> QED
  BY <1>3, <1>4 DEF TypeInv

LEMMA StartSolverType ==
    ASSUME TypeInv, NEW r \in Rank, StartSolver(r)
    PROVE  TypeInv'
<1>1. Candidates(done[r], solver[r]) # {}
  BY DEF StartSolver, PassOver
<1>2. FirstOf(Candidates(done[r], solver[r])) \in Solvers
  BY <1>1, FirstIn DEF Candidates
<1>3. pass[r] \in 1 .. CoupledMaxIter /\ done[r] \in SUBSET Solvers
  BY DEF TypeInv, TypeOK
<1> QED
  BY <1>2, <1>3, StartType DEF StartSolver

\* A pass is begun only before the last one.
LEMMA StartPassType ==
    ASSUME TypeInv, NEW r \in Rank, StartPass(r)
    PROVE  TypeInv'
<1>1. pass[r] \in 1 .. CoupledMaxIter /\ pass[r] # CoupledMaxIter
  BY DEF StartPass, Leaves, TypeInv, TypeOK
<1>2. pass[r] + 1 \in 1 .. CoupledMaxIter
  BY <1>1, IterationAssumption
<1>3. Candidates({}, 0) \subseteq Solvers
  BY DEF Candidates
<1>4. FirstOf(Candidates({}, 0)) \in Solvers
  BY <1>3, FirstIn, PassHasFirst
<1>5. Start(r, pass[r] + 1, FirstOf(Candidates({}, 0)), {})
  BY DEF StartPass
<1> QED
  BY <1>2, <1>4, <1>5, StartType

LEMMA LeaveType ==
    ASSUME TypeInv, NEW r \in Rank, Leave(r)
    PROVE  TypeInv'
<1>1. TypeOK'
  BY DEF Leave, TypeInv, TypeOK
<1> QED
  BY <1>1 DEF Leave, TypeInv, TypeOK

\* Replacing a value of a function keeps its type, wherever it is replaced.
LEMMA ExceptType ==
    ASSUME NEW D, NEW V, NEW f \in [D -> V], NEW k, NEW v \in V
    PROVE  [f EXCEPT ![k] = v] \in [D -> V]
  OBVIOUS

Verdict == [pass : 0 .. CoupledMaxIter, done : BOOLEAN]

LEMMA BystandType ==
    ASSUME TypeInv, NEW r \in Rank, Bystand(r)
    PROVE  TypeInv'
<1> DEFINE b == TestConvergence(solver[r], pass[r]) \/ solver[r] \in finished[r]
           v == [pass |-> pass[r], done |-> b]
           f == [verdict[r] EXCEPT ![solver[r]] = v]
<1>1. b \in BOOLEAN
  OBVIOUS
<1> HIDE DEF b
<1>2. v \in Verdict
  BY <1>1, IterationAssumption DEF TypeInv, TypeOK, Verdict
<1>3. f \in [Solvers -> Verdict]
  <2>1. verdict[r] \in [Solvers -> Verdict]
    BY DEF TypeInv, TypeOK, Verdict
  <2> HIDE DEF v
  <2> QED
    BY <1>2, <2>1, ExceptType
<1>4. verdict' = [verdict EXCEPT ![r] = f]
  BY DEF Bystand, b
<1> HIDE DEF f, v
<1>5. verdict' \in [Rank -> [Solvers -> Verdict]]
  BY <1>3, <1>4 DEF TypeInv, TypeOK, Verdict
<1>6. TypeOK'
  BY <1>5 DEF Bystand, TypeInv, TypeOK, Verdict
<1> QED
  BY <1>6 DEF Bystand, TypeInv, TypeOK

LEMMA ActivateType == ASSUME TypeInv, Activate PROVE TypeInv'
<1>1. TypeOK'
  BY DEF Activate, TypeInv, TypeOK
<1> QED
  BY <1>1 DEF Activate, TypeInv

LEMMA SolveType == ASSUME TypeInv, Solve PROVE TypeInv'
<1> DEFINE members == {r \in Rank : at[r] = "solve"}
           k(r)    == solver[r]
<1>1. PICK bad \in BOOLEAN, converged \in BOOLEAN, refined \in BOOLEAN :
        LET fin(r) == finished[r] \cup (IF refined THEN {k(r)} \cap Refined ELSE {})
        IN  /\ verdict' = [r \in Rank |->
                 IF r \notin members THEN verdict[r]
                 ELSE [verdict[r] EXCEPT ![k(r)] =
                         [pass |-> pass[r],
                          done |-> \/ TestConvergence(k(r), pass[r]) /\ converged
                                   \/ k(r) \in fin(r)]]]
            /\ finished' = [r \in Rank |-> IF r \in members THEN fin(r) ELSE finished[r]]
            /\ diverged' = [r \in Rank |-> IF r \in members THEN bad ELSE diverged[r]]
  BY ZenonT(30) DEF Solve
<1> DEFINE fin(r) == finished[r] \cup (IF refined THEN {k(r)} \cap Refined ELSE {})
           b(r) == \/ TestConvergence(k(r), pass[r]) /\ converged
                   \/ k(r) \in fin(r)
           v(r) == [pass |-> pass[r], done |-> b(r)]
           f(r) == [verdict[r] EXCEPT ![k(r)] = v(r)]
<1>2. ASSUME NEW r \in Rank PROVE f(r) \in [Solvers -> Verdict]
  <2>1. b(r) \in BOOLEAN
    OBVIOUS
  <2> HIDE DEF b
  <2>2. v(r) \in Verdict
    BY <2>1, IterationAssumption DEF TypeInv, TypeOK, Verdict
  <2>3. verdict[r] \in [Solvers -> Verdict]
    BY DEF TypeInv, TypeOK, Verdict
  <2> HIDE DEF v
  <2> QED
    BY <2>2, <2>3, ExceptType
<1>3. verdict' = [r \in Rank |-> IF r \notin members THEN verdict[r] ELSE f(r)]
  BY <1>1
<1>4. verdict' \in [Rank -> [Solvers -> Verdict]]
  <2> HIDE DEF f, members
  <2> QED
    BY <1>2, <1>3 DEF TypeInv, TypeOK, Verdict
<1>5. finished' \in [Rank -> SUBSET Solvers]
  <2>1. finished' = [r \in Rank |-> IF r \in members THEN fin(r) ELSE finished[r]]
    BY <1>1
  <2>2. \A r \in Rank : fin(r) \in SUBSET Solvers
    BY SolverAssumption DEF TypeInv, TypeOK
  <2> HIDE DEF fin, members
  <2> QED
    BY <2>1, <2>2 DEF TypeInv, TypeOK
<1>6. diverged' \in [Rank -> BOOLEAN]
  <2>1. diverged' = [r \in Rank |-> IF r \in members THEN bad ELSE diverged[r]]
    BY <1>1
  <2> QED
    BY <2>1 DEF TypeInv, TypeOK
<1>7. /\ at' \in [Rank -> {"next", "cut", "active", "solve", "bystand", "reduce", "left", "fatal"}]
      /\ UNCHANGED <<pass, solver, done>>
  BY DEF Solve, TypeInv, TypeOK
<1>8. TypeOK'
  BY <1>4, <1>5, <1>6, <1>7 DEF TypeInv, TypeOK, Verdict
<1> QED
  BY <1>8 DEF Solve, TypeInv, TypeOK

LEMMA ReduceType == ASSUME TypeInv, Reduce PROVE TypeInv'
<1>1. \A r \in Rank : solver[r] \in Solvers /\ done[r] \in SUBSET Solvers
  BY DEF Reduce, TypeInv, TypeOK
<1>2. done' \in [Rank -> SUBSET Solvers]
  BY <1>1 DEF Reduce
<1>3. TypeOK'
  BY <1>2 DEF Reduce, TypeInv, TypeOK
<1> QED
  BY <1>3 DEF Reduce, TypeInv

LEMMA TypeStep == TypeInv /\ [Next]_vars => TypeInv'
<1> SUFFICES ASSUME TypeInv, [Next]_vars PROVE TypeInv'
  OBVIOUS
<1>1. ASSUME NEW r \in Rank, Local(r) PROVE TypeInv'
  BY <1>1, StartSolverType, StartPassType, LeaveType, BystandType DEF Local
<1>2. CASE UNCHANGED vars
  BY <1>2 DEF vars, TypeInv, TypeOK
<1> QED
  BY <1>1, <1>2, ActivateType, SolveType, ReduceType DEF Next, Terminated

\* The type invariant.
THEOREM CoupledTypeCorrect == Spec => []TypeOK
<1>1. Spec => []TypeInv
  BY InitType, TypeStep, PTL DEF Spec
<1>2. TypeInv => TypeOK
  BY DEF TypeInv
<1> QED
  BY <1>1, <1>2, PTL

-----------------------------------------------------------------------------
(* The ranks agree. *)

\* Between the call before a solver and the one after it, a rank is in the solver.
InSolver == {"solve", "bystand", "reduce"}
Between  == {"next", "active", "left", "fatal"}

SamePlace(r, s) == pass[s] = pass[r] /\ solver[s] = solver[r] /\ done[s] = done[r]

\* Rank s is where rank r goes from its place between two calls.
Ahead(r, s) ==
    IF LeavesAt(pass[r], solver[r], done[r])
    THEN at[s] = EndsIn(done[r]) /\ SamePlace(r, s)
    ELSE /\ at[s] = "active"
         /\ pass[s] = NextPass(pass[r], solver[r], done[r])
         /\ solver[s] = NextSolver(solver[r], done[r])
         /\ done[s] = NextDone(solver[r], done[r])

\* Two ranks between two calls are at the same place, or one is one move ahead.
Together(r, s) ==
    \/ at[r] = at[s] /\ SamePlace(r, s)
    \/ at[r] = "next" /\ Ahead(r, s)
    \/ at[s] = "next" /\ Ahead(s, r)

AgreeInv ==
    /\ TypeInv
    /\ \A r \in Rank : ~ diverged[r] /\ at[r] # "cut"
    /\ \/ /\ \A r \in Rank : at[r] \in InSolver
          /\ \A r, s \in Rank : SamePlace(r, s)
       \/ /\ \A r \in Rank : at[r] \in Between
          /\ \A r, s \in Rank : Together(r, s)

\* Without divergence tests, a rank leaves or goes on as computed from its place.
LEMMA MoveFrom ==
    ASSUME NEW r \in Rank, ~ diverged[r], at[r] = "next", ~ TestDivergence
    PROVE  /\ Leaves(r) <=> LeavesAt(pass[r], solver[r], done[r])
           /\ PassOver(r) <=> Candidates(done[r], solver[r]) = {}
           /\ EndsIn(done[r]) = IF NotConverged(r) THEN "fatal" ELSE "left"
  BY DEF Leaves, PassOver, DoneAtEnd, NotConverged, LeavesAt, EndsIn

\* A rank that moves on its own, does so to the place ahead of its own.
Moves(r) ==
    /\ at[r] = "next"
    /\ UNCHANGED <<diverged, verdict, finished>>
    /\ IF LeavesAt(pass[r], solver[r], done[r])
       THEN at' = [at EXCEPT ![r] = EndsIn(done[r])] /\ UNCHANGED <<pass, solver, done>>
       ELSE /\ at' = [at EXCEPT ![r] = "active"]
            /\ pass' = [pass EXCEPT ![r] = NextPass(pass[r], solver[r], done[r])]
            /\ solver' = [solver EXCEPT ![r] = NextSolver(solver[r], done[r])]
            /\ done' = [done EXCEPT ![r] = NextDone(solver[r], done[r])]

LEMMA LocalMoves ==
    ASSUME AgreeInv, ~ TestDivergence, NEW r \in Rank,
           StartSolver(r) \/ StartPass(r) \/ Leave(r)
    PROVE  Moves(r)
<1>1. ~ diverged[r] /\ at[r] # "cut"
  BY DEF AgreeInv
<1>2. at[r] = "next"
  BY <1>1 DEF StartSolver, StartPass, Leave, Leaves, PassOver
<1>3. /\ Leaves(r) <=> LeavesAt(pass[r], solver[r], done[r])
      /\ PassOver(r) <=> Candidates(done[r], solver[r]) = {}
      /\ EndsIn(done[r]) = IF NotConverged(r) THEN "fatal" ELSE "left"
  BY <1>1, <1>2, MoveFrom
<1>4. CASE StartSolver(r)
  BY <1>2, <1>3, <1>4 DEF StartSolver, Start, Moves, NextPass, NextSolver, NextDone
<1>5. CASE StartPass(r)
  BY <1>2, <1>3, <1>5 DEF StartPass, Start, Moves, NextPass, NextSolver, NextDone
<1>6. CASE Leave(r)
  BY <1>2, <1>3, <1>6 DEF Leave, Moves
<1> QED
  BY <1>4, <1>5, <1>6

\* The ranks begin at the same place.
LEMMA InitAgrees == Init => AgreeInv
<1> SUFFICES ASSUME Init PROVE AgreeInv
  OBVIOUS
<1>1. TypeInv
  BY InitType
<1> QED
  BY <1>1 DEF Init, AgreeInv, Between, Together, SamePlace

\* When a rank moves it comes to where the others are, or gets one move ahead of them.
LEMMA MovesTogether ==
    ASSUME AgreeInv, NEW r \in Rank, Moves(r), NEW s \in Rank, s # r
    PROVE  Together(r, s)' /\ Together(s, r)'
<1> DEFINE leaves == LeavesAt(pass[r], solver[r], done[r])
<1>1. /\ DOMAIN at = Rank /\ DOMAIN pass = Rank
      /\ DOMAIN solver = Rank /\ DOMAIN done = Rank
  BY DEF AgreeInv, TypeInv, TypeOK
<1>2. at[r] = "next" /\ Together(r, s)
  BY DEF Moves, AgreeInv, InSolver
<1>3. at'[s] = at[s] /\ pass'[s] = pass[s] /\ solver'[s] = solver[s] /\ done'[s] = done[s]
  BY <1>1 DEF Moves
<1>4. IF leaves
      THEN at'[r] = EndsIn(done[r]) /\ pass'[r] = pass[r]
           /\ solver'[r] = solver[r] /\ done'[r] = done[r]
      ELSE /\ at'[r] = "active"
           /\ pass'[r] = NextPass(pass[r], solver[r], done[r])
           /\ solver'[r] = NextSolver(solver[r], done[r])
           /\ done'[r] = NextDone(solver[r], done[r])
  BY <1>1 DEF Moves
<1>5. EndsIn(done[r]) # "next" /\ EndsIn(done[s]) # "next"
  BY DEF EndsIn
<1>6. CASE at[s] = "next" /\ SamePlace(r, s)
  <2>1. Ahead(s, r)'
    BY <1>3, <1>4, <1>6 DEF SamePlace, Ahead
  <2> QED
    BY <1>3, <1>6, <2>1 DEF Together
<1>7. CASE Ahead(r, s)
  <2>1. at'[r] = at'[s] /\ SamePlace(r, s)'
    BY <1>3, <1>4, <1>7 DEF SamePlace, Ahead
  <2> QED
    BY <2>1 DEF Together, SamePlace
<1>8. ~ (at[s] = "next" /\ Ahead(s, r))
  BY <1>2, <1>5 DEF Ahead
<1> QED
  BY <1>2, <1>6, <1>7, <1>8 DEF Together

LEMMA MovesAgree ==
    ASSUME AgreeInv, TypeInv', NEW r \in Rank, Moves(r)
    PROVE  AgreeInv'
<1>1. /\ DOMAIN at = Rank /\ DOMAIN pass = Rank
      /\ DOMAIN solver = Rank /\ DOMAIN done = Rank
  BY DEF AgreeInv, TypeInv, TypeOK
<1>2. /\ \A s \in Rank : at[s] \in Between
      /\ \A s, t \in Rank : Together(s, t)
  BY DEF AgreeInv, Moves, InSolver
<1>3. \A s \in Rank : s # r => at'[s] = at[s] /\ pass'[s] = pass[s]
                               /\ solver'[s] = solver[s] /\ done'[s] = done[s]
  BY <1>1 DEF Moves
<1>4. at'[r] \in {"active", "left", "fatal"}
  BY <1>1 DEF Moves, EndsIn
<1>5. \A s \in Rank : at'[s] \in Between /\ at'[s] # "cut" /\ ~ diverged'[s]
  BY <1>2, <1>3, <1>4 DEF Between, Moves, AgreeInv
<1>6. ASSUME NEW s \in Rank, NEW t \in Rank PROVE Together(s, t)'
  <2>1. CASE s = r /\ t = r
    BY <2>1 DEF Together, SamePlace
  <2>2. CASE s = r /\ t # r
    BY <2>2, MovesTogether
  <2>3. CASE s # r /\ t = r
    BY <2>3, MovesTogether
  <2>4. CASE s # r /\ t # r
    <3>1. Together(s, t)
      BY <1>2
    <3> QED
      BY <1>3, <2>4, <3>1 DEF Together, Ahead, SamePlace
  <2> QED
    BY <2>1, <2>2, <2>3, <2>4
<1> QED
  BY <1>5, <1>6 DEF AgreeInv

\* A solver is entered and left by all ranks from the same place.
LEMMA ActivateAgrees == ASSUME AgreeInv, TypeInv', Activate PROVE AgreeInv'
<1>1. \A r, s \in Rank : SamePlace(r, s)
  BY RankAssumption DEF AgreeInv, Activate, Together, InSolver
<1>2. \A r, s \in Rank : SamePlace(r, s)'
  BY <1>1 DEF Activate, SamePlace
<1>3. \A r \in Rank : at'[r] \in InSolver /\ at'[r] # "cut" /\ ~ diverged'[r]
  BY DEF Activate, InSolver, AgreeInv
<1> QED
  BY <1>2, <1>3 DEF AgreeInv

LEMMA BystandAgrees ==
    ASSUME AgreeInv, TypeInv', ~ TestDivergence, NEW r \in Rank, Bystand(r)
    PROVE  AgreeInv'
<1>1. /\ \A s \in Rank : at[s] \in InSolver
      /\ \A s, t \in Rank : SamePlace(s, t)
  BY DEF AgreeInv, Bystand, Between
<1>2. \A s, t \in Rank : SamePlace(s, t)'
  BY <1>1 DEF Bystand, SamePlace
<1>3. DOMAIN at = Rank
  BY DEF AgreeInv, TypeInv, TypeOK
<1>4. \A s \in Rank : at'[s] \in InSolver /\ at'[s] # "cut" /\ ~ diverged'[s]
  BY <1>1, <1>3 DEF Bystand, InSolver, AgreeInv
<1> QED
  BY <1>2, <1>4 DEF AgreeInv

LEMMA SolveAgrees ==
    ASSUME AgreeInv, TypeInv', ~ TestDivergence, Solve
    PROVE  AgreeInv'
<1>1. PICK r \in Rank : at[r] = "solve"
  BY DEF Solve
<1>2. /\ \A s \in Rank : at[s] \in InSolver
      /\ \A s, t \in Rank : SamePlace(s, t)
  BY <1>1 DEF AgreeInv, Between
<1>3. \A s, t \in Rank : SamePlace(s, t)'
  BY <1>2 DEF Solve, SamePlace
<1>4. \A s \in Rank : at'[s] \in InSolver /\ at'[s] # "cut"
  BY <1>2 DEF Solve, InSolver
<1>5. \A s \in Rank : ~ diverged'[s]
  BY DEF Solve, AgreeInv
<1> QED
  BY <1>3, <1>4, <1>5 DEF AgreeInv

\* The verdict is a common one: all ranks add the solver or none does.
LEMMA ReduceAgrees == ASSUME AgreeInv, TypeInv', Reduce PROVE AgreeInv'
<1>1. \A s, t \in Rank : SamePlace(s, t)
  BY RankAssumption DEF AgreeInv, Reduce, Between
<1>2. \A s, t \in Rank : SamePlace(s, t)'
  BY <1>1 DEF Reduce, SamePlace, CommonVerdict
<1>3. \A s \in Rank : at'[s] = "next" /\ ~ diverged'[s]
  BY DEF Reduce, AgreeInv
<1> QED
  BY <1>2, <1>3 DEF AgreeInv, Between, Together

LEMMA AgreeStep == ~ TestDivergence => (AgreeInv /\ [Next]_vars => AgreeInv')
<1> SUFFICES ASSUME ~ TestDivergence, AgreeInv, [Next]_vars PROVE AgreeInv'
  OBVIOUS
<1>1. TypeInv'
  BY TypeStep DEF AgreeInv
<1>2. ASSUME NEW r \in Rank, Local(r) PROVE AgreeInv'
  <2>1. CASE Bystand(r)
    BY <1>1, <2>1, BystandAgrees
  <2>2. CASE StartSolver(r) \/ StartPass(r) \/ Leave(r)
    BY <1>1, <2>2, LocalMoves, MovesAgree
  <2> QED
    BY <1>2, <2>1, <2>2 DEF Local
<1>3. CASE UNCHANGED vars
  BY <1>1, <1>3 DEF vars, AgreeInv, Together, Ahead, SamePlace
<1> QED
  BY <1>1, <1>2, <1>3, ActivateAgrees, SolveAgrees, ReduceAgrees DEF Next, Terminated

LEMMA AgreeImplies == AgreeInv => RanksAgree
<1> SUFFICES ASSUME AgreeInv, NEW r \in Settled, NEW s \in Settled, at[r] # "reduce"
             PROVE  /\ at[s] \in {at[r], "reduce"}
                    /\ at[s] = at[r] => /\ pass[s] = pass[r] /\ solver[s] = solver[r]
                                        /\ done[s] = done[r]
  BY DEF RanksAgree
<1>1. r \in Rank /\ s \in Rank
  BY DEF Settled
<1>2. Together(r, s) /\ at[r] # "next" /\ at[s] # "next"
  BY <1>1 DEF AgreeInv, Settled, InSolver
<1> QED
  BY <1>2 DEF Together, SamePlace

\* Without divergence tests the ranks meet in the same calls and leave together,
\* whichever of them take part in which solver: nobody waits for one who left.
THEOREM RanksMeet == ASSUME ~ TestDivergence PROVE Spec => []RanksAgree
<1>1. Init => AgreeInv
  BY InitAgrees
<1>2. AgreeInv /\ [Next]_vars => AgreeInv'
  BY AgreeStep
<1>3. AgreeInv => RanksAgree
  BY AgreeImplies
<1> QED
  BY <1>1, <1>2, <1>3, PTL DEF Spec

-----------------------------------------------------------------------------
(* What is done was found to be done. *)

\* A rank has started the solver that it is at.
Started == {"active", "solve", "bystand", "reduce"}

\* What rank r takes for done was found done in this pass by the ranks that solve it.
\* A solver is executed once in a pass, so nothing that is done is found anew; and
\* one that waits for the others has been started with all of those done.
RankFound(r) ==
    /\ \A k \in done[r] : k <= solver[r]
    /\ at[r] \in Started =>
            /\ solver[r] \notin done[r]
            /\ solver[r] \in AfterConverged => Coupled \ AfterConverged \subseteq done[r]
    /\ at[r] = "reduce" => verdict[r][solver[r]].pass = pass[r]
    /\ at[r] = "left" /\ pass[r] < CoupledMaxIter => Coupled \subseteq done[r]
    /\ \A k \in Coupled \cap done[r] : FoundDone(k, pass[r])

FoundInv == AgreeInv /\ \A r \in Rank : RankFound(r)

LEMMA InitFound == Init => FoundInv
<1> SUFFICES ASSUME Init PROVE FoundInv
  OBVIOUS
<1>1. AgreeInv
  BY InitAgrees
<1>2. ASSUME NEW r \in Rank PROVE RankFound(r)
  BY DEF Init, RankFound, Started
<1> QED
  BY <1>1, <1>2 DEF FoundInv

\* Solvers before k that are passed over are no solvers of the loop.
LEMMA PassedOver ==
    ASSUME NEW k
    PROVE  /\ SkippedBefore(k) \subseteq Solvers
           /\ \A j \in SkippedBefore(k) : j < k /\ j \notin Coupled
  BY DEF SkippedBefore

LEMMA StartFound ==
    ASSUME FoundInv, NEW r \in Rank, NEW p, NEW k \in Solvers, NEW d \in SUBSET Solvers,
           Ready(d, k), \A j \in d : j < k, \A j \in Coupled \cap d : FoundDone(j, p),
           Start(r, p, k, d)
    PROVE  \A s \in Rank : RankFound(s)'
<1>1. /\ DOMAIN at = Rank /\ DOMAIN pass = Rank
      /\ DOMAIN solver = Rank /\ DOMAIN done = Rank
  BY DEF FoundInv, AgreeInv, TypeInv, TypeOK
<1>2. verdict' = verdict
  BY DEF Start
<1>3. \A j, q : FoundDone(j, q)' = FoundDone(j, q)
  BY <1>2 DEF FoundDone, Members
<1>4. ASSUME NEW s \in Rank, s # r PROVE RankFound(s)'
  <2>1. at'[s] = at[s] /\ pass'[s] = pass[s] /\ solver'[s] = solver[s] /\ done'[s] = done[s]
    BY <1>1, <1>4 DEF Start
  <2>2. RankFound(s)
    BY DEF FoundInv
  <2> QED
    BY <1>2, <2>1, <2>2, <1>3 DEF RankFound
<1>5. RankFound(r)'
  <2>1. at'[r] = "active" /\ pass'[r] = p /\ solver'[r] = k /\ done'[r] = d \cup SkippedBefore(k)
    BY <1>1 DEF Start
  <2>2. k \in Nat /\ \A j \in Solvers : j \in Nat
    BY SolverAssumption DEF Solvers
  <2>3. \A j \in d \cup SkippedBefore(k) : j < k /\ j <= k
    BY <2>2, PassedOver
  <2>4. k \notin d \cup SkippedBefore(k)
    BY <2>2, <2>3
  <2>5. k \in AfterConverged => Coupled \ AfterConverged \subseteq d \cup SkippedBefore(k)
    BY SolverAssumption DEF Ready
  <2>6. \A j \in Coupled \cap (d \cup SkippedBefore(k)) : FoundDone(j, p)'
    BY <1>3, PassedOver
  <2> QED
    BY <2>1, <2>3, <2>4, <2>5, <2>6 DEF RankFound
<1> QED
  BY <1>4, <1>5

LEMMA StartSolverFound ==
    ASSUME FoundInv, NEW r \in Rank, StartSolver(r)
    PROVE  \A s \in Rank : RankFound(s)'
<1> DEFINE k == FirstOf(Candidates(done[r], solver[r]))
<1>1. Candidates(done[r], solver[r]) \subseteq Solvers
  BY DEF Candidates
<1>2. Candidates(done[r], solver[r]) # {}
  BY DEF StartSolver, PassOver
<1>3. k \in Candidates(done[r], solver[r])
  BY <1>1, <1>2, FirstIn
<1>4. k \in Solvers /\ k > solver[r] /\ Ready(done[r], k)
  BY <1>3 DEF Candidates
<1>5. done[r] \in SUBSET Solvers /\ solver[r] \in Nat /\ \A j \in Solvers : j \in Nat
  BY SolverAssumption DEF FoundInv, AgreeInv, TypeInv, TypeOK, Solvers
<1>6. RankFound(r) /\ Start(r, pass[r], k, done[r])
  BY DEF FoundInv, StartSolver
<1> HIDE DEF k
<1>7. \A j \in done[r] : j < k
  BY <1>4, <1>5, <1>6 DEF RankFound
<1>8. \A j \in Coupled \cap done[r] : FoundDone(j, pass[r])
  BY <1>6 DEF RankFound
<1> QED
  BY <1>4, <1>5, <1>6, <1>7, <1>8, StartFound

LEMMA StartPassFound ==
    ASSUME FoundInv, NEW r \in Rank, StartPass(r)
    PROVE  \A s \in Rank : RankFound(s)'
<1> DEFINE k == FirstOf(Candidates({}, 0))
<1>1. Candidates({}, 0) \subseteq Solvers
  BY DEF Candidates
<1>2. k \in Candidates({}, 0)
  BY <1>1, PassHasFirst, FirstIn
<1>3. k \in Solvers /\ Ready({}, k)
  BY <1>2 DEF Candidates
<1>4. Start(r, pass[r] + 1, k, {})
  BY DEF StartPass
<1> HIDE DEF k
<1> QED
  BY <1>3, <1>4, StartFound

LEMMA LeaveFound ==
    ASSUME FoundInv, NEW r \in Rank, Leave(r)
    PROVE  \A s \in Rank : RankFound(s)'
<1>1. DOMAIN at = Rank
  BY DEF FoundInv, AgreeInv, TypeInv, TypeOK
<1>2. UNCHANGED <<pass, solver, done, verdict>>
  BY DEF Leave
<1>3. \A j, q : FoundDone(j, q)' = FoundDone(j, q)
  BY <1>2 DEF FoundDone, Members
<1>4. ASSUME NEW s \in Rank, s # r PROVE RankFound(s)'
  <2>1. at'[s] = at[s]
    BY <1>1, <1>4 DEF Leave
  <2>2. RankFound(s)
    BY DEF FoundInv
  <2> QED
    BY <1>2, <1>3, <2>1, <2>2 DEF RankFound
<1>5. RankFound(r)'
  <2>1. RankFound(r) /\ ~ diverged[r] /\ at[r] # "cut"
    BY DEF FoundInv, AgreeInv
  <2>2. at'[r] \in {"left", "fatal"}
    BY <1>1 DEF Leave
  <2>3. CoupledMaxIter \in Nat /\ pass[r] \in Nat
    BY IterationAssumption DEF FoundInv, AgreeInv, TypeInv, TypeOK
  <2>4. ASSUME pass[r] < CoupledMaxIter PROVE Coupled \subseteq done[r]
    <3>1. AllDone(done[r]) \/ AllDone(DoneAtEnd(r))
      BY <2>1, <2>3, <2>4 DEF Leave, Leaves
    <3>2. Solvers \subseteq done[r] \cup SkippedBefore(NumberOfSolvers + 1)
      BY <3>1 DEF AllDone, DoneAtEnd
    <3> QED
      BY <3>2, PassedOver, SolverAssumption
  <2> QED
    BY <1>2, <1>3, <2>1, <2>2, <2>4 DEF RankFound, Started
<1> QED
  BY <1>4, <1>5

LEMMA ActivateFound == ASSUME FoundInv, Activate PROVE \A s \in Rank : RankFound(s)'
<1> SUFFICES ASSUME NEW s \in Rank PROVE RankFound(s)'
  OBVIOUS
<1>1. RankFound(s) /\ UNCHANGED <<pass, solver, done, verdict>>
  BY DEF FoundInv, Activate
<1>2. \A j, q : FoundDone(j, q)' = FoundDone(j, q)
  BY <1>1 DEF FoundDone, Members
<1>3. at[s] = "active" /\ at'[s] \in {"solve", "bystand"}
  BY DEF Activate
<1> QED
  BY <1>1, <1>2, <1>3 DEF RankFound, Started

\* A solver that is executed is not done yet: what was found of the others stays.
LEMMA InSolverFound ==
    ASSUME FoundInv, \A r \in Rank : at[r] \in InSolver /\ at'[r] \in InSolver,
           UNCHANGED <<pass, solver, done>>,
           \A r \in Rank, j \in Solvers : j # solver[r] => verdict'[r][j] = verdict[r][j],
           \A r \in Rank : at'[r] = "reduce" => verdict'[r][solver[r]].pass = pass[r]
    PROVE  \A s \in Rank : RankFound(s)'
<1> SUFFICES ASSUME NEW s \in Rank PROVE RankFound(s)'
  OBVIOUS
<1>1. RankFound(s)
  BY DEF FoundInv
<1>2. \A t \in Rank : SamePlace(s, t)
  BY DEF FoundInv, AgreeInv, InSolver, Between
<1>3. solver[s] \notin done[s]
  BY <1>1 DEF RankFound, InSolver, Started
<1>4. ASSUME NEW j \in Coupled \cap done[s] PROVE FoundDone(j, pass[s])'
  <2>1. FoundDone(j, pass[s]) /\ j \in Solvers
    BY <1>1, SolverAssumption DEF RankFound
  <2>2. \A t \in Rank : verdict'[t][j] = verdict[t][j]
    BY <1>2, <1>3, <2>1 DEF SamePlace
  <2>3. Members(j) \subseteq Rank
    BY <2>1, SolverAssumption DEF Members
  <2> QED
    BY <2>1, <2>2, <2>3 DEF FoundDone, Members
<1> QED
  BY <1>1, <1>4 DEF RankFound, InSolver, Started

LEMMA BystandFound ==
    ASSUME FoundInv, ~ TestDivergence, NEW r \in Rank, Bystand(r)
    PROVE  \A s \in Rank : RankFound(s)'
<1>1. /\ DOMAIN at = Rank /\ DOMAIN verdict = Rank
      /\ \A s \in Rank : DOMAIN verdict[s] = Solvers
      /\ solver[r] \in Solvers
  BY DEF FoundInv, AgreeInv, TypeInv, TypeOK, Bystand
<1>2. \A s \in Rank : at[s] \in InSolver
  BY DEF FoundInv, AgreeInv, Bystand, Between
<1>3. \A s \in Rank : at'[s] \in InSolver
  BY <1>1, <1>2 DEF Bystand, InSolver
<1> DEFINE v == [pass |-> pass[r],
                 done |-> TestConvergence(solver[r], pass[r]) \/ solver[r] \in finished[r]]
<1>4. v.pass = pass[r] /\ verdict' = [verdict EXCEPT ![r][solver[r]] = v]
  BY DEF Bystand
<1> HIDE DEF v
<1>5. \A s \in Rank, j \in Solvers : j # solver[s] => verdict'[s][j] = verdict[s][j]
  BY <1>1, <1>4
<1>6. ASSUME NEW s \in Rank, at'[s] = "reduce" PROVE verdict'[s][solver[s]].pass = pass[s]
  <2>1. CASE s = r
    BY <1>1, <1>4, <2>1
  <2>2. CASE s # r
    <3>1. at[s] = "reduce" /\ verdict'[s] = verdict[s]
      BY <1>1, <1>4, <1>6, <2>2 DEF Bystand
    <3> QED
      BY <3>1 DEF FoundInv, RankFound
  <2> QED
    BY <2>1, <2>2
<1> QED
  BY <1>2, <1>3, <1>5, <1>6, InSolverFound DEF Bystand

LEMMA SolveFound ==
    ASSUME FoundInv, ~ TestDivergence, Solve
    PROVE  \A s \in Rank : RankFound(s)'
<1> DEFINE members == {r \in Rank : at[r] = "solve"}
           k(r)    == solver[r]
<1>1. /\ \A s \in Rank : DOMAIN verdict[s] = Solvers
      /\ \A s \in members : solver[s] \in Solvers
  BY DEF FoundInv, AgreeInv, TypeInv, TypeOK
<1>2. \A s \in Rank : at[s] \in InSolver
  BY DEF FoundInv, AgreeInv, Solve, Between
<1>3. \A s \in Rank : at'[s] = IF s \in members THEN "reduce" ELSE at[s]
  BY DEF Solve
<1>4. PICK converged \in BOOLEAN, refined \in BOOLEAN :
        LET fin(r) == finished[r] \cup (IF refined THEN {k(r)} \cap Refined ELSE {})
        IN  verdict' = [r \in Rank |->
              IF r \notin members THEN verdict[r]
              ELSE [verdict[r] EXCEPT ![k(r)] =
                      [pass |-> pass[r],
                       done |-> \/ TestConvergence(k(r), pass[r]) /\ converged
                                \/ k(r) \in fin(r)]]]
  BY ZenonT(30) DEF Solve
<1> DEFINE fin(r) == finished[r] \cup (IF refined THEN {k(r)} \cap Refined ELSE {})
           v(r) == [pass |-> pass[r],
                    done |-> \/ TestConvergence(k(r), pass[r]) /\ converged
                             \/ k(r) \in fin(r)]
<1>5. \A s \in Rank : v(s).pass = pass[s]
  OBVIOUS
<1>6. verdict' = [r \in Rank |-> IF r \notin members THEN verdict[r]
                                 ELSE [verdict[r] EXCEPT ![solver[r]] = v(r)]]
  BY <1>4
<1> HIDE DEF v
<1>7. ASSUME NEW s \in Rank
      PROVE  IF s \in members
             THEN v(s).pass = pass[s] /\ verdict'[s] = [verdict[s] EXCEPT ![solver[s]] = v(s)]
             ELSE verdict'[s] = verdict[s]
  BY <1>5, <1>6
<1>8. ASSUME NEW s \in Rank, NEW j \in Solvers, j # solver[s]
      PROVE  verdict'[s][j] = verdict[s][j]
  BY <1>1, <1>7, <1>8
<1>9. ASSUME NEW s \in Rank, at'[s] = "reduce" PROVE verdict'[s][solver[s]].pass = pass[s]
  <2>1. CASE s \in members
    BY <1>1, <1>7, <2>1
  <2>2. CASE s \notin members
    <3>1. at[s] = "reduce" /\ verdict'[s] = verdict[s]
      BY <1>3, <1>7, <1>9, <2>2
    <3> QED
      BY <3>1 DEF FoundInv, RankFound
  <2> QED
    BY <2>1, <2>2
<1>10. \A s \in Rank : at'[s] \in InSolver
  BY <1>2, <1>3 DEF InSolver
<1>11. UNCHANGED <<pass, solver, done>>
  BY DEF Solve
<1> QED
  BY <1>2, <1>8, <1>9, <1>10, <1>11, InSolverFound

\* A verdict that is common is one of every rank that solves.
LEMMA ReduceFound == ASSUME FoundInv, Reduce PROVE \A s \in Rank : RankFound(s)'
<1> SUFFICES ASSUME NEW s \in Rank PROVE RankFound(s)'
  OBVIOUS
<1>1. RankFound(s) /\ UNCHANGED <<pass, solver, verdict>>
  BY DEF FoundInv, Reduce
<1>2. \A t \in Rank : SamePlace(s, t)
  BY DEF FoundInv, AgreeInv, Reduce, Between
<1>3. \A j, q : FoundDone(j, q)' = FoundDone(j, q)
  BY <1>1 DEF FoundDone, Members
<1>4. /\ at'[s] = "next"
      /\ done'[s] = IF CommonVerdict(s) THEN done[s] \cup {solver[s]} ELSE done[s] \ {solver[s]}
  BY DEF Reduce
<1>5. ASSUME CommonVerdict(s), solver[s] \in Coupled PROVE FoundDone(solver[s], pass[s])
  <2>1. Members(solver[s]) \subseteq Rank
    BY <1>5, SolverAssumption DEF Members
  <2>2. ASSUME NEW t \in Rank
        PROVE  verdict[t][solver[s]].pass = pass[s] /\ verdict[t][solver[s]].done
    <3>1. solver[t] = solver[s] /\ pass[t] = pass[s]
      BY <1>2 DEF SamePlace
    <3>2. verdict[t][solver[t]].pass = pass[t]
      BY DEF Reduce, FoundInv, RankFound
    <3> QED
      BY <1>5, <3>1, <3>2 DEF CommonVerdict
  <2> QED
    BY <2>1, <2>2 DEF FoundDone
<1>6. solver[s] \in Nat
  BY SolverAssumption DEF FoundInv, AgreeInv, TypeInv, TypeOK
<1> QED
  BY <1>1, <1>3, <1>4, <1>5, <1>6 DEF RankFound, Started

LEMMA FoundStep == ~ TestDivergence => (FoundInv /\ [Next]_vars => FoundInv')
<1> SUFFICES ASSUME ~ TestDivergence, FoundInv, [Next]_vars PROVE FoundInv'
  OBVIOUS
<1>1. AgreeInv'
  BY AgreeStep DEF FoundInv
<1>2. ASSUME NEW r \in Rank, Local(r) PROVE \A s \in Rank : RankFound(s)'
  BY <1>2, StartSolverFound, StartPassFound, LeaveFound, BystandFound DEF Local
<1>3. CASE UNCHANGED vars
  <2>1. \A j, q : FoundDone(j, q)' = FoundDone(j, q)
    BY <1>3 DEF vars, FoundDone, Members
  <2>2. \A s \in Rank : RankFound(s)'
    BY <1>3, <2>1 DEF vars, FoundInv, RankFound
  <2> QED
    BY <1>1, <2>2 DEF FoundInv
<1>4. \A s \in Rank : RankFound(s)'
  BY <1>2, <1>3, ActivateFound, SolveFound, ReduceFound DEF Next, Terminated, FoundInv
<1> QED
  BY <1>1, <1>4 DEF FoundInv

\* With divergence tests the pass is cut after every solver, and none is ever done.
NoneDone ==
    /\ TypeInv
    /\ \A r \in Rank :
         /\ at[r] # "reduce" /\ done[r] \cap Coupled = {}
         /\ at[r] \in Started => solver[r] \notin AfterConverged
         /\ at[r] = "left" /\ pass[r] < CoupledMaxIter => diverged[r]

LEMMA InitNoneDone == Init => NoneDone
<1> SUFFICES ASSUME Init PROVE NoneDone
  OBVIOUS
<1>1. TypeInv
  BY InitType
<1> QED
  BY <1>1 DEF Init, NoneDone, Started

\* Where none is done, no solver is ready that waits for the others.
LEMMA NoneReady ==
    ASSUME NEW d, NEW k, d \cap Coupled = {}, Ready(d, k)
    PROVE  k \notin AfterConverged
  BY IterationAssumption, SolverAssumption, PassedOver DEF Ready

LEMMA StartNoneDone ==
    ASSUME NoneDone, TypeInv', NEW r \in Rank, NEW p, NEW k, NEW d, d \cap Coupled = {},
           Ready(d, k), Start(r, p, k, d)
    PROVE  NoneDone'
<1>1. /\ DOMAIN at = Rank /\ DOMAIN pass = Rank
      /\ DOMAIN solver = Rank /\ DOMAIN done = Rank
  BY DEF NoneDone, TypeInv, TypeOK
<1>2. k \notin AfterConverged /\ (d \cup SkippedBefore(k)) \cap Coupled = {}
  BY NoneReady, PassedOver
<1> QED
  BY <1>1, <1>2 DEF NoneDone, Start, Started

LEMMA NoneDoneStep == TestDivergence => (NoneDone /\ [Next]_vars => NoneDone')
<1> SUFFICES ASSUME TestDivergence, NoneDone, [Next]_vars PROVE NoneDone'
  OBVIOUS
<1>1. TypeInv'
  BY TypeStep DEF NoneDone
<1>2. /\ DOMAIN at = Rank /\ DOMAIN diverged = Rank
      /\ \A r \in Rank : pass[r] \in Nat /\ CoupledMaxIter \in Nat
  BY IterationAssumption DEF NoneDone, TypeInv, TypeOK
<1>3. ASSUME NEW r \in Rank, StartSolver(r) PROVE NoneDone'
  <2>1. Candidates(done[r], solver[r]) # {} /\ Candidates(done[r], solver[r]) \subseteq Solvers
    BY <1>3 DEF StartSolver, PassOver, Candidates
  <2>2. Ready(done[r], FirstOf(Candidates(done[r], solver[r])))
    BY <2>1, FirstIn DEF Candidates
  <2> QED
    BY <1>1, <1>3, <2>2, StartNoneDone DEF StartSolver, NoneDone
<1>4. ASSUME NEW r \in Rank, StartPass(r) PROVE NoneDone'
  <2>1. Candidates({}, 0) \subseteq Solvers
    BY DEF Candidates
  <2>2. Ready({}, FirstOf(Candidates({}, 0)))
    BY <2>1, PassHasFirst, FirstIn DEF Candidates
  <2> QED
    BY <1>1, <1>4, <2>2, StartNoneDone DEF StartPass
<1>5. ASSUME NEW r \in Rank, Leave(r) PROVE NoneDone'
  <2>1. ASSUME pass[r] < CoupledMaxIter PROVE diverged[r]
    <3>1. done[r] \cap Coupled = {} /\ Coupled # {} /\ Coupled \subseteq Solvers
      BY IterationAssumption, SolverAssumption DEF NoneDone
    <3>2. ~ AllDone(done[r]) /\ ~ AllDone(DoneAtEnd(r))
      BY <3>1, PassedOver DEF AllDone, DoneAtEnd
    <3> QED
      BY <1>2, <1>5, <2>1, <3>2 DEF Leave, Leaves
  <2>2. \A s \in Rank : at'[s] = IF s = r THEN at'[r] ELSE at[s]
    BY <1>2, <1>5 DEF Leave
  <2>3. at'[r] \in {"left", "fatal"} /\ UNCHANGED <<pass, solver, done, diverged>>
    BY <1>2, <1>5 DEF Leave
  <2> QED
    BY <1>1, <2>1, <2>2, <2>3 DEF NoneDone, Started
<1>6. ASSUME NEW r \in Rank, Bystand(r) PROVE NoneDone'
  <2>1. /\ \A s \in Rank : at'[s] = IF s = r THEN "cut" ELSE at[s]
        /\ UNCHANGED <<pass, solver, done, diverged>>
    BY <1>2, <1>6 DEF Bystand
  <2> QED
    BY <1>1, <2>1 DEF NoneDone, Started
<1>7. CASE Activate
  <2>1. /\ \A s \in Rank : at[s] = "active" /\ at'[s] \in {"solve", "bystand"}
        /\ UNCHANGED <<pass, solver, done, diverged>>
    BY <1>7 DEF Activate
  <2> QED
    BY <1>1, <2>1 DEF NoneDone, Started
<1>8. CASE Solve
  <2>1. /\ \A s \in Rank : at'[s] = IF at[s] = "solve" THEN "cut" ELSE at[s]
        /\ \A s \in Rank : at[s] # "solve" => diverged'[s] = diverged[s]
        /\ UNCHANGED <<pass, solver, done>>
    BY <1>8 DEF Solve
  <2> QED
    BY <1>1, <2>1 DEF NoneDone, Started
<1>9. CASE Reduce
  BY <1>9, RankAssumption DEF Reduce, NoneDone
<1>10. CASE UNCHANGED vars
  BY <1>1, <1>10 DEF vars, NoneDone
<1> QED
  BY <1>3, <1>4, <1>5, <1>6, <1>7, <1>8, <1>9, <1>10 DEF Next, Local, Terminated

\* Both invariants together, as one for every value of the keyword.
DoneInv == IF TestDivergence THEN NoneDone ELSE FoundInv

LEMMA DoneHolds == Spec => []DoneInv
<1>1. Init => DoneInv
  BY InitFound, InitNoneDone DEF DoneInv
<1>2. DoneInv /\ [Next]_vars => DoneInv'
  BY FoundStep, NoneDoneStep DEF DoneInv
<1> QED
  BY <1>1, <1>2, PTL DEF Spec

\* The loop is left early only when every solver of it was found converged in one and
\* the same pass by the ranks that solve it, with divergence tests or without.
THEOREM LeftConverged == Spec => []ConvergedInOnePass
<1>1. DoneInv => ConvergedInOnePass
  <2>1. CASE TestDivergence
    BY <2>1 DEF DoneInv, NoneDone, ConvergedInOnePass
  <2>2. CASE ~ TestDivergence
    BY <2>2 DEF DoneInv, FoundInv, RankFound, ConvergedInOnePass
  <2> QED
    BY <2>1, <2>2
<1> QED
  BY <1>1, DoneHolds, PTL

\* A solver that waits for the others is executed on fields that were found converged
\* in the same pass.
THEOREM WaitsForOthers == Spec => []OthersConverged
<1>1. DoneInv => OthersConverged
  <2>1. CASE TestDivergence
    BY <2>1 DEF DoneInv, NoneDone, Started, OthersConverged
  <2>2. CASE ~ TestDivergence
    <3>1. ASSUME FoundInv, NEW r \in Rank, at[r] = "solve", solver[r] \in AfterConverged,
                 NEW k \in Coupled \ AfterConverged
          PROVE  FoundDone(k, pass[r])
      BY <3>1 DEF FoundInv, RankFound, Started
    <3> QED
      BY <2>2, <3>1 DEF DoneInv, OthersConverged
  <2> QED
    BY <2>1, <2>2
<1> QED
  BY <1>1, DoneHolds, PTL

-----------------------------------------------------------------------------
(* Divergence tests: the pass is cut after a solver, so only the first one   *)
(* is executed, and each rank goes on by its own flag.  The flags are the    *)
(* same when all ranks take part in that solver.                             *)

AtFirst == FirstOf(Candidates({}, 0))

AllTakePart == Active[AtFirst] \in {{}, Rank}

SameCut(r, s) == SamePlace(r, s) /\ diverged[s] = diverged[r]

\* The loop ends for rank r with the pass that was cut.
CutLeaves(r) ==
    at[r] = "cut" /\ (diverged[r] \/ AllDone(done[r]) \/ pass[r] = CoupledMaxIter)

\* Rank s is where rank r goes from its place between two solvers.
CutAhead(r, s) ==
    /\ at[r] \in {"next", "cut"}
    /\ IF CutLeaves(r)
       THEN at[s] = "left" /\ SameCut(r, s)
       ELSE /\ at[s] = "active" /\ diverged[s] = diverged[r]
            /\ pass[s] = IF at[r] = "cut" THEN pass[r] + 1 ELSE pass[r]
            /\ solver[s] = AtFirst /\ done[s] = SkippedBefore(AtFirst)

CutTogether(r, s) ==
    \/ at[r] = at[s] /\ SameCut(r, s)
    \/ CutAhead(r, s)
    \/ CutAhead(s, r)

CutInv ==
    /\ TypeInv
    /\ \A r \in Rank : /\ at[r] \in {"next", "cut", "active", "solve", "left"}
                       /\ at[r] = "next" => done[r] = {} /\ solver[r] = 0
                       /\ at[r] \in {"active", "solve"} => solver[r] = AtFirst
    /\ \A r, s \in Rank : CutTogether(r, s)

\* A rank that moves on its own, does so to the place ahead of its own.
CutMoves(r) ==
    /\ at[r] \in {"next", "cut"}
    /\ diverged' = diverged
    /\ IF CutLeaves(r)
       THEN at' = [at EXCEPT ![r] = "left"] /\ UNCHANGED <<pass, solver, done>>
       ELSE /\ at' = [at EXCEPT ![r] = "active"]
            /\ pass' = [pass EXCEPT ![r] = IF at[r] = "cut" THEN pass[r] + 1 ELSE pass[r]]
            /\ solver' = [solver EXCEPT ![r] = AtFirst]
            /\ done' = [done EXCEPT ![r] = SkippedBefore(AtFirst)]

\* A rank is by itself only before the first pass and after a cut one.
LEMMA LocalCutMoves ==
    ASSUME CutInv, TestDivergence, NEW r \in Rank, Local(r)
    PROVE  CutMoves(r)
<1>1. /\ at[r] \in {"next", "cut", "active", "solve", "left"}
      /\ at[r] = "next" => done[r] = {} /\ solver[r] = 0
  BY DEF CutInv
<1>2. at[r] = "next" => ~ PassOver(r) /\ ~ Leaves(r)
  <2> SUFFICES ASSUME at[r] = "next" PROVE ~ PassOver(r) /\ ~ Leaves(r)
    OBVIOUS
  <2>1. ~ PassOver(r)
    BY <1>1, PassHasFirst DEF PassOver
  <2>2. ~ AllDone(done[r])
    BY <1>1, SolverAssumption DEF AllDone, Solvers
  <2> QED
    BY <2>1, <2>2 DEF Leaves
<1>3. at[r] = "cut" => PassOver(r) /\ (Leaves(r) <=> CutLeaves(r))
  BY DEF PassOver, Leaves, CutLeaves, DoneAtEnd
<1>4. CASE StartSolver(r)
  <2>1. at[r] = "next" /\ done[r] = {} /\ solver[r] = 0
    BY <1>1, <1>4 DEF StartSolver
  <2>2. Start(r, pass[r], AtFirst, {})
    BY <1>4, <2>1 DEF StartSolver, AtFirst
  <2> QED
    BY <2>1, <2>2 DEF Start, CutMoves, CutLeaves
<1>5. CASE StartPass(r)
  <2>1. at[r] = "cut" /\ ~ CutLeaves(r)
    BY <1>2, <1>3, <1>5 DEF StartPass, PassOver
  <2>2. Start(r, pass[r] + 1, AtFirst, {})
    BY <1>5 DEF StartPass, AtFirst
  <2> QED
    BY <2>1, <2>2 DEF Start, CutMoves
<1>6. CASE Leave(r)
  <2>1. at[r] = "cut" /\ CutLeaves(r)
    BY <1>2, <1>3, <1>6 DEF Leave, Leaves, PassOver
  <2>2. ~ NotConverged(r)
    BY DEF NotConverged
  <2> QED
    BY <1>6, <2>1, <2>2 DEF Leave, CutMoves
<1>7. ~ Bystand(r)
  BY <1>1 DEF Bystand
<1> QED
  BY <1>4, <1>5, <1>6, <1>7 DEF Local

\* When a rank moves it comes to where the others are, or gets one move ahead of them.
LEMMA CutMovesTogether ==
    ASSUME CutInv, NEW r \in Rank, CutMoves(r), NEW s \in Rank, s # r
    PROVE  CutTogether(r, s)' /\ CutTogether(s, r)'
<1>1. /\ DOMAIN at = Rank /\ DOMAIN pass = Rank
      /\ DOMAIN solver = Rank /\ DOMAIN done = Rank
  BY DEF CutInv, TypeInv, TypeOK
<1>2. CutTogether(r, s) /\ at[r] \in {"next", "cut"}
  BY DEF CutInv, CutMoves
<1>3. /\ at'[s] = at[s] /\ pass'[s] = pass[s] /\ solver'[s] = solver[s] /\ done'[s] = done[s]
      /\ diverged'[s] = diverged[s] /\ diverged'[r] = diverged[r]
  BY <1>1 DEF CutMoves
<1>4. IF CutLeaves(r)
      THEN at'[r] = "left" /\ pass'[r] = pass[r] /\ solver'[r] = solver[r] /\ done'[r] = done[r]
      ELSE /\ at'[r] = "active"
           /\ pass'[r] = IF at[r] = "cut" THEN pass[r] + 1 ELSE pass[r]
           /\ solver'[r] = AtFirst /\ done'[r] = SkippedBefore(AtFirst)
  BY <1>1 DEF CutMoves
<1>5. CASE at[r] = at[s] /\ SameCut(r, s)
  <2>1. CutLeaves(s) <=> CutLeaves(r)
    BY <1>5 DEF CutLeaves, SameCut, SamePlace
  <2>2. CutLeaves(s)' <=> CutLeaves(s)
    BY <1>3 DEF CutLeaves
  <2>3. CutAhead(s, r)'
    BY <1>2, <1>3, <1>4, <1>5, <2>1, <2>2 DEF CutAhead, SameCut, SamePlace
  <2> QED
    BY <2>3 DEF CutTogether
<1>6. CASE CutAhead(r, s)
  <2>1. at'[r] = at'[s] /\ SameCut(r, s)'
    BY <1>3, <1>4, <1>6 DEF CutAhead, SameCut, SamePlace
  <2> QED
    BY <2>1 DEF CutTogether, SameCut, SamePlace
<1>7. ~ CutAhead(s, r)
  BY <1>2 DEF CutAhead
<1> QED
  BY <1>2, <1>5, <1>6, <1>7 DEF CutTogether

LEMMA CutMovesKeep ==
    ASSUME CutInv, TypeInv', NEW r \in Rank, CutMoves(r)
    PROVE  CutInv'
<1>1. /\ DOMAIN at = Rank /\ DOMAIN pass = Rank
      /\ DOMAIN solver = Rank /\ DOMAIN done = Rank
  BY DEF CutInv, TypeInv, TypeOK
<1>2. \A s \in Rank : s # r => at'[s] = at[s] /\ pass'[s] = pass[s]
                               /\ solver'[s] = solver[s] /\ done'[s] = done[s]
  BY <1>1 DEF CutMoves
<1>3. at'[r] = "left" \/ (at'[r] = "active" /\ solver'[r] = AtFirst)
  BY <1>1 DEF CutMoves
<1>4. ASSUME NEW s \in Rank
      PROVE  /\ at'[s] \in {"next", "cut", "active", "solve", "left"}
             /\ at'[s] = "next" => done'[s] = {} /\ solver'[s] = 0
             /\ at'[s] \in {"active", "solve"} => solver'[s] = AtFirst
  BY <1>2, <1>3 DEF CutInv
<1>5. ASSUME NEW s \in Rank, NEW t \in Rank PROVE CutTogether(s, t)'
  <2>1. CASE s = r /\ t = r
    BY <2>1 DEF CutTogether, SameCut, SamePlace
  <2>2. CASE s = r /\ t # r
    BY <2>2, CutMovesTogether
  <2>3. CASE s # r /\ t = r
    BY <2>3, CutMovesTogether
  <2>4. CASE s # r /\ t # r
    <3>1. CutTogether(s, t) /\ diverged' = diverged
      BY DEF CutInv, CutMoves
    <3>2. /\ at'[s] = at[s] /\ pass'[s] = pass[s] /\ solver'[s] = solver[s] /\ done'[s] = done[s]
          /\ at'[t] = at[t] /\ pass'[t] = pass[t] /\ solver'[t] = solver[t] /\ done'[t] = done[t]
      BY <1>2, <2>4
    <3> QED
      BY <3>1, <3>2 DEF CutTogether, CutAhead, CutLeaves, SameCut, SamePlace
  <2> QED
    BY <2>1, <2>2, <2>3, <2>4
<1> QED
  BY <1>4, <1>5 DEF CutInv

\* All ranks go into the solver and come out of it together.
LEMMA ActivateCut == ASSUME CutInv, TypeInv', AllTakePart, Activate PROVE CutInv'
<1>1. \A r, s \in Rank : at[r] = "active" /\ solver[r] = AtFirst /\ SameCut(r, s)
  BY DEF CutInv, CutTogether, CutAhead, Activate
<1>2. \A r \in Rank : at'[r] = "solve"
  <2>1. {r \in Rank : r \in Active[solver[r]]} = {r \in Rank : r \in Active[AtFirst]}
    BY <1>1
  <2>2. {r \in Rank : r \in Active[AtFirst]} \in {{}, Rank}
    BY DEF AllTakePart
  <2> QED
    BY <2>1, <2>2 DEF Activate
<1>3. \A r, s \in Rank : SameCut(r, s)' /\ solver'[r] = AtFirst
  BY <1>1 DEF Activate, SameCut, SamePlace
<1> QED
  BY <1>2, <1>3 DEF CutInv, CutTogether

\* The solver gives all ranks the same flag, since all of them are in it.
LEMMA SolveCut == ASSUME CutInv, TypeInv', TestDivergence, Solve PROVE CutInv'
<1>1. PICK r \in Rank : at[r] = "solve"
  BY DEF Solve
<1>2. \A s \in Rank : at[s] = "solve" /\ SameCut(r, s)
  BY <1>1 DEF CutInv, CutTogether, CutAhead
<1>3. \A s, t \in Rank : SamePlace(s, t)
  BY <1>2 DEF SameCut, SamePlace
<1>4. {s \in Rank : at[s] = "solve"} = Rank
  BY <1>2
<1>5. \A s \in Rank : at'[s] = "cut"
  BY <1>2 DEF Solve
<1>6. \A s, t \in Rank : diverged'[s] = diverged'[t]
  BY <1>2, <1>4 DEF Solve
<1>7. \A s, t \in Rank : SameCut(s, t)'
  BY <1>3, <1>6 DEF Solve, SameCut, SamePlace
<1> QED
  BY <1>5, <1>7 DEF CutInv, CutTogether

LEMMA CutStep ==
    ASSUME TestDivergence, AllTakePart, CutInv, [Next]_vars
    PROVE  CutInv'
<1>1. TypeInv'
  BY TypeStep DEF CutInv
<1>2. ASSUME NEW r \in Rank, Local(r) PROVE CutInv'
  BY <1>1, <1>2, LocalCutMoves, CutMovesKeep
<1>3. CASE UNCHANGED vars
  BY <1>1, <1>3 DEF vars, CutInv, CutTogether, CutAhead, CutLeaves, SameCut, SamePlace
<1>4. ~ Reduce
  BY RankAssumption DEF Reduce, CutInv
<1> QED
  BY <1>1, <1>2, <1>3, <1>4, ActivateCut, SolveCut DEF Next, Terminated

\* With divergence tests the ranks meet in the same calls and leave together when all
\* of them take part in the first solver of the loop, the only one that is executed.
THEOREM RanksMeetAtCuts ==
    ASSUME TestDivergence, AllTakePart
    PROVE  Spec => []RanksAgree
<1>1. Init => CutInv
  <2> SUFFICES ASSUME Init PROVE CutInv
    OBVIOUS
  <2>1. TypeInv
    BY InitType
  <2> QED
    BY <2>1 DEF Init, CutInv, CutTogether, SameCut, SamePlace
<1>2. CutInv /\ [Next]_vars => CutInv'
  BY CutStep
<1>3. CutInv => RanksAgree
  <2> SUFFICES ASSUME CutInv, NEW r \in Settled, NEW s \in Settled, at[r] # "reduce"
               PROVE  /\ at[s] \in {at[r], "reduce"}
                      /\ at[s] = at[r] => /\ pass[s] = pass[r] /\ solver[s] = solver[r]
                                          /\ done[s] = done[r]
    BY DEF RanksAgree
  <2>1. r \in Rank /\ s \in Rank
    BY DEF Settled
  <2>2. CutTogether(r, s) /\ at[r] \notin {"next", "cut"} /\ at[s] \notin {"next", "cut"}
    BY <2>1 DEF CutInv, Settled
  <2> QED
    BY <2>2 DEF CutTogether, CutAhead, SameCut, SamePlace
<1> QED
  BY <1>1, <1>2, <1>3, PTL DEF Spec
=============================================================================
