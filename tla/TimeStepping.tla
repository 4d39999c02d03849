---------------------------- MODULE TimeStepping ----------------------------
(***************************************************************************)
(* The time loop of ElmerSolver: ExecSimulation (fem/src/ElmerSolver.F90)  *)
(* with SolveEquations (MainUtils.F90) and InitializeTimestep              *)
(* (SolverUtils.F90), for one process.  The loop runs the timesteps of     *)
(* each interval, with fixed steps, with adaptive sub-steps (a full        *)
(* sub-step is tried, then two halves) or with divergence control (a       *)
(* diverged sub-step is retried smaller), saves results, and stops.        *)
(*                                                                         *)
(* A field is abstracted to the instant it approximates: the values that a *)
(* solver leaves in Solver % Variable % Values are its "level".  A         *)
(* transient solver takes its level from PrevValues(:,1) plus the step     *)
(* size it is called with; a solver without a time derivative is evaluated *)
(* at the clock.  Whether a sub-step is accurate enough, whether a solver  *)
(* diverges and whether a steady state is reached are choices.             *)
(*                                                                         *)
(* Step sizes are even numbers of ticks, so that half a step is exact.     *)
(***************************************************************************)
EXTENDS Integers, Sequences

CONSTANTS
    Solver,           \* the solvers of the case
    Slot,             \* Slot[x]: when x is executed, Solver % SolverExecWhen
    Order,            \* Order[x]: values kept in its history, 0 without a time derivative
    ExecInterval,     \* ExecInterval[x]: keyword 'Exec Intervals', 1 by default
    SkipFirst,        \* the solvers with 'Skip First Timestep'
    SimulationType,   \* "transient", "scanning" or "steady"
    Control,          \* "fixed", "adaptive" or "divergence"
    Timesteps,        \* Timesteps[i]: number of steps of interval i
    StepSizes,        \* StepSizes[i]: the sizes a step of interval i may have
    OutputIntervals,  \* OutputIntervals[i]: save every that many steps, 0 for never
    MaxTimestep,      \* keyword 'Adaptive Max Timestep'
    MinTimestep,      \* keyword 'Adaptive Min Timestep'
    Increase(_),      \* AdaptiveIncrease * ddt
    Decrease(_),      \* AdaptiveDecrease * ddt
    KeepSmallest,     \* keyword 'Adaptive Keep Smallest'
    Rough,            \* keyword 'Adaptive Rough Timestep'
    Smart,            \* keyword 'Adaptive Smart Timestep'
    StartZero,        \* keyword 'Timestep Start Zero'
    FinalOnly,        \* keyword 'Output File Final Only'
    MayExit,          \* one of the conditions that leave the loop early is given
    CoupledMinIter    \* keyword 'Steady State Min Iterations'

Half(d) == d \div 2

\* A step size: positive and even.
IsSize(d) == d \in Nat \ {0} /\ d = Half(d) + Half(d)

\* Length of sPrevSizes, the ladder of previous step sizes.
PrevSizesLen == 5

Slots == {"before simulation", "before timestep", "always", "after timestep",
          "before saving", "after saving", "after simulation"}

ASSUME SolverAssumption ==
    /\ Slot \in [Solver -> Slots]
    /\ Order \in [Solver -> 0 .. PrevSizesLen]
    /\ ExecInterval \in [Solver -> Nat \ {0}]
    /\ SkipFirst \subseteq Solver

ASSUME LoopAssumption ==
    /\ SimulationType \in {"transient", "scanning", "steady"}
    /\ Control \in {"fixed", "adaptive", "divergence"}
    /\ Timesteps \in Seq(Nat) /\ Timesteps # <<>>
    /\ SimulationType = "steady" => Len(Timesteps) = 1
    /\ OutputIntervals \in Seq(Nat) /\ Len(OutputIntervals) = Len(Timesteps)
    /\ DOMAIN StepSizes = 1 .. Len(Timesteps)
    /\ \A i \in 1 .. Len(Timesteps) : \A d \in StepSizes[i] : IsSize(d)
    /\ \A b \in {Rough, Smart, StartZero, FinalOnly, MayExit} : b \in BOOLEAN
    /\ CoupledMinIter \in Nat

\* A rejected sub-step above the minimum gets smaller, an accepted one does not.
ASSUME StepControlAssumption ==
    /\ IsSize(MaxTimestep) /\ IsSize(MinTimestep)
    /\ KeepSmallest \in Nat
    /\ \A d \in 1 .. MaxTimestep : IsSize(d) =>
         /\ IsSize(Increase(d)) /\ Increase(d) >= d
         /\ d > MinTimestep => IsSize(Decrease(d)) /\ Decrease(d) < d

VARIABLES
    pc,          \* where the loop is
    interval,    \* the timestep interval, 1 .. TimeIntervals
    timestep,    \* the timestep in the interval
    cum,         \* cum_Timestep, the number of timesteps begun
    realStep,    \* RealTimestep
    step,        \* sStep(1), the variable 'Timestep'
    time,        \* sTime(1), the variable 'Time'
    dt,          \* the size of the timestep
    size,        \* sSize(1), the variable 'Timestep size'
    prevSizes,   \* sPrevSizes(1,:), its previous values
    start,       \* s, the time at which the sub-steps start
    cumTime,     \* CumTime, the part of dt that is done
    ddt,         \* the size of the sub-step, -1 before the first one
    smallest,    \* SmallestCount
    control,     \* StepControl
    sol,         \* sol[x]: the variable of solver x and its history
    kept,        \* AdaptVars, what a rejected sub-step goes back to
    steady,      \* SteadyStateReached
    lastSaved,   \* LastSaved
    result,      \* the saves in the result file, written by SaveCurrent
    post         \* the steps in the post file, written by SaveToPost

clockVars   == <<cum, realStep, step, time, dt, size, prevSizes>>
subStepVars == <<start, cumTime, ddt, smallest, control, kept>>
saveVars    == <<lastSaved, result, post>>
vars == <<pc, interval, timestep, clockVars, subStepVars, sol, steady, saveVars>>

-----------------------------------------------------------------------------
(* Helpers. *)

MinOf(a, b) == IF a <= b THEN a ELSE b

Transient == SimulationType = "transient"

TimeIntervals == Len(Timesteps)

\* AdaptiveMaxTimestep of a timestep of size d.
MaxSubStep(d) == MinOf(MaxTimestep, d)

\* Slip: the sub-step is not clipped to what is left of the timestep.
ClipNot(d, left) == d

\* Clips the next sub-step to what is left of the timestep; with "Smart" the
\* rest is split in two when the sub-step would not finish it.
Clip(d, left) ==
    IF Rough THEN d
    ELSE LET m == MinOf(left, d)
         IN  IF Smart /\ left > m THEN MinOf(m, 2 * ((left + 2) \div 4)) ELSE m

-----------------------------------------------------------------------------
(* The solvers. *)

\* Slip: the current values are not taken over when the history is full.
InitializeTimestepLate(h, order) ==
    [h EXCEPT !.done = MinOf(h.done + 1, PrevSizesLen),
              !.prev = [i \in 1 .. PrevSizesLen |-> IF h.done < order THEN h.val ELSE h.prev[i]]]

\* InitializeTimestep: the history of a solver moves one step down, as far as
\* the order reached so far, and the current values become the newest of it.
\* DoneTime counts on for ever; it is only read up to the order, and kept so far.
InitializeTimestep(h, order) ==
    LET used == MinOf(h.done + 1, order)
    IN  [h EXCEPT !.done = MinOf(h.done + 1, PrevSizesLen),
                  !.prev = [i \in 1 .. PrevSizesLen |->
                              IF i > used THEN h.prev[i]
                              ELSE IF i = 1 THEN h.val ELSE h.prev[i - 1]]]

\* SolverActivate: a solver whose 'Exec Intervals' excludes the current
\* 'Timestep' returns without solving.
Executes(x, st) == (st - 1) % ExecInterval[x] = 0

\* SolverActivate of solver x with step size d at clock t; "bad" tells that
\* the iteration of x diverges.
Activate(h, x, d, t, st, transient, bad) ==
    IF ~ Executes(x, st) THEN h
    ELSE [h EXCEPT !.val = IF transient /\ Order[x] > 0 THEN h.prev[1] + d ELSE t,
                   !.diverged = bad]

\* SolveEquations: every solver is initialised for the step, the solvers of the
\* given slots are executed.
SolveEquations(u, d, t, st, slots, first, bad) ==
    [x \in Solver |->
        LET h == IF Transient THEN InitializeTimestep(u[x], Order[x]) ELSE u[x]
        IN  IF Slot[x] \in slots /\ ~ (first /\ x \in SkipFirst)
            THEN Activate(h, x, d, t, st, Transient, x \in bad)
            ELSE h]

\* The loop over the solvers of one slot, outside SolveEquations.
ActivateSlot(u, slot, d, t, st, transient) ==
    [x \in Solver |-> IF Slot[x] = slot
                      THEN Activate(u[x], x, d, t, st, transient, FALSE)
                      ELSE u[x]]

BeforeAndAt == {"before timestep", "always"}
After       == {"after timestep"}

\* What a save writes: the step number, the time and the fields.
Record(st, t, u) == [step |-> st, time |-> t, level |-> [x \in Solver |-> u[x].val]]

-----------------------------------------------------------------------------
(* The initial state, as InitializeIntervals and SetInitialConditions leave it. *)

InitialField == [val |-> 0, prev |-> [i \in 1 .. PrevSizesLen |-> 0],
                 done |-> 0, diverged |-> FALSE]

Init ==
    /\ pc = "start"
    /\ interval = 1 /\ timestep = 1 /\ cum = 0 /\ realStep = 1
    /\ step = 0 /\ time = 0 /\ dt = 2 /\ size = 0
    /\ prevSizes = [i \in 1 .. PrevSizesLen |-> 0]
    /\ start = 0 /\ cumTime = 0 /\ ddt = -1 /\ smallest = 0 /\ control = -1
    /\ sol = [x \in Solver |-> InitialField]
    /\ kept = sol
    /\ steady = FALSE
    /\ lastSaved = FALSE /\ result = <<>> /\ post = <<>>

\* The solvers that are called before the loop; they are never transient.
BeforeSimulation ==
    /\ pc = "start"
    /\ pc' = "step"
    /\ sol' = ActivateSlot(sol, "before simulation", dt, time, step, FALSE)
    /\ UNCHANGED <<interval, timestep, clockVars, subStepVars, steady, saveVars>>

-----------------------------------------------------------------------------
(* Beginning a timestep. *)

\* Slip: the ladder is not shifted by the first step of an interval.
ShiftedSizesPerInterval ==
    IF timestep > 1
    THEN [i \in 1 .. PrevSizesLen |-> IF i = 1 THEN size ELSE prevSizes[i - 1]]
    ELSE prevSizes

\* The ladder of previous sizes after a step is begun.
ShiftedSizes ==
    IF timestep > 1 \/ interval > 1
    THEN [i \in 1 .. PrevSizesLen |-> IF i = 1 THEN size ELSE prevSizes[i - 1]]
    ELSE prevSizes

\* The size of the step: only transient and scanning runs read it.
ChosenSizes == IF SimulationType = "steady" THEN {dt} ELSE StepSizes[interval]

\* Slip: the mark that no sub-step was chosen yet is taken for a size.
FirstSubStepUnset(d) == MinOf(ddt, MaxSubStep(d))

\* Slip: the sub-step left by the previous timestep is kept whatever the new size is.
FirstSubStepKept(d) == IF ddt < 0 THEN MaxTimestep ELSE ddt

\* The first sub-step of a timestep of size d.
FirstSubStep(d) ==
    LET next == IF Control = "divergence" /\ ddt > 0 THEN Increase(ddt) ELSE ddt
    IN  IF next < 0 \/ next > MaxSubStep(d) THEN MaxSubStep(d) ELSE next

BeginTimestep ==
    /\ pc = "step"
    /\ interval <= TimeIntervals /\ timestep <= Timesteps[interval]
    /\ \E d \in ChosenSizes :
        LET now == IF cum = 0 /\ StartZero THEN time ELSE time + d
        IN  /\ cum' = cum + 1 /\ step' = cum + 1
            /\ dt' = d /\ time' = now
            /\ prevSizes' = ShiftedSizes /\ size' = d
            /\ IF (Transient /\ Control = "adaptive") \/ Control = "divergence"
               THEN /\ start' = now - d /\ cumTime' = 0 /\ ddt' = FirstSubStep(d)
                    /\ smallest' = IF Control = "adaptive" THEN 0 ELSE smallest
                    /\ pc' = "substep"
               ELSE UNCHANGED <<start, cumTime, ddt, smallest>> /\ pc' = "fixed"
    /\ UNCHANGED <<interval, timestep, realStep, control, kept, sol, steady, saveVars>>

\* The next interval, or the end of the loop.
NextInterval ==
    /\ pc = "step"
    /\ interval <= TimeIntervals /\ timestep > Timesteps[interval]
    /\ interval' = interval + 1
    /\ IF interval < TimeIntervals
       THEN timestep' = 1 /\ realStep' = 1 /\ pc' = "step"
       ELSE UNCHANGED <<timestep, realStep>> /\ pc' = "after"
    /\ UNCHANGED <<cum, step, time, dt, size, prevSizes, subStepVars, sol, steady, saveVars>>

-----------------------------------------------------------------------------
(* A timestep with a fixed size. *)

\* Only a run that is not transient tells whether a steady state was reached.
SteadyOutcomes == IF Transient THEN {steady} ELSE BOOLEAN

FixedStep ==
    /\ pc = "fixed"
    /\ pc' = "save"
    /\ sol' = SolveEquations(sol, dt, time, step, BeforeAndAt \cup After, realStep = 1, {})
    /\ steady' \in SteadyOutcomes
    /\ realStep' = realStep + 1
    /\ UNCHANGED <<interval, timestep, cum, step, time, dt, size, prevSizes,
                   subStepVars, saveVars>>

-----------------------------------------------------------------------------
(* Sub-steps that may be refused: adaptive ones, one full sub-step and then  *)
(* the same in two halves, and those under divergence control.               *)

\* Slip: the minimal sub-step is refused as well.
BelowMinimum == ddt < MinTimestep

\* The sub-step is as small as it may get.
AtMinimum == ddt <= MinTimestep

\* Slip: the values are restored, their history is not.
RestoredValuesOnly == [x \in Solver |-> [sol[x] EXCEPT !.val = kept[x].val]]

\* Slip: the history is restored, the values are not.
RestoredHistoryOnly == [x \in Solver |-> [sol[x] EXCEPT !.prev = kept[x].prev]]

\* The fields of a solver go back to what they were before the sub-step; the
\* number of times it was initialised, DoneTime, does not.
Restored == [x \in Solver |-> [sol[x] EXCEPT !.val = kept[x].val, !.prev = kept[x].prev]]

AdaptiveFull ==
    /\ pc = "substep" /\ Control = "adaptive"
    /\ cumTime < dt
    /\ LET d == Clip(ddt, dt - cumTime)
       IN  /\ ddt' = d /\ size' = d
           /\ time' = start + cumTime + d
           /\ kept' = sol
           /\ sol' = SolveEquations(sol, d, start + cumTime + d, step,
                                    BeforeAndAt, realStep = 1, {})
    /\ pc' = "halves"
    /\ UNCHANGED <<interval, timestep, cum, realStep, step, dt, prevSizes, start,
                   cumTime, smallest, control, steady, saveVars>>

\* The code stores half the sub-step in sStep(1), the variable 'Timestep', whose
\* nearest integer SolverActivate reads before each of the two solves.
AdaptiveHalves ==
    /\ pc = "halves"
    /\ LET h      == Half(ddt)
           now    == start + cumTime
           first  == SolveEquations(Restored, h, now + h, h, BeforeAndAt, realStep = 1, {})
           second == SolveEquations(first, h, now + ddt, h, BeforeAndAt, realStep = 1, {})
       IN  /\ step' = h
           /\ time' = now + ddt
           /\ sol' = second
    /\ pc' = "judge"
    /\ UNCHANGED <<interval, timestep, cum, realStep, dt, size, prevSizes,
                   subStepVars, steady, saveVars>>

\* The two solutions are close enough, or the sub-step is as small as allowed.
\* The sub-step is enlarged first, then the solvers "after timestep" are run
\* with half of the enlarged one.
AdaptiveAccept ==
    /\ pc = "judge" /\ Control = "adaptive"
    /\ cumTime' = cumTime + ddt
    /\ realStep' = realStep + 1
    /\ IF smallest >= KeepSmallest \/ control > 0
       THEN ddt' = MinOf(Increase(ddt), MaxSubStep(dt)) /\ control' = 1 /\ smallest' = 0
       ELSE ddt' = ddt /\ control' = 0 /\ smallest' = smallest + 1
    /\ sol' = SolveEquations(sol, Half(ddt'), time, step, After, realStep' = 1, {})
    /\ pc' = "substep"
    /\ UNCHANGED <<interval, timestep, cum, step, time, dt, size, prevSizes, start, kept,
                   steady, saveVars>>

AdaptiveReject ==
    /\ pc = "judge" /\ Control = "adaptive"
    /\ ~ AtMinimum
    /\ sol' = Restored
    /\ ddt' = Decrease(ddt)
    /\ control' = -1
    /\ pc' = "substep"
    /\ UNCHANGED <<interval, timestep, clockVars, start, cumTime, smallest, kept,
                   steady, saveVars>>

-----------------------------------------------------------------------------
(* Divergence control: a sub-step that diverges is retried with a smaller one. *)

DivergenceTry ==
    /\ pc = "substep" /\ Control = "divergence"
    /\ cumTime < dt
    /\ LET d == Clip(ddt, dt - cumTime)
       IN  /\ ddt' = d /\ size' = d
           /\ time' = start + cumTime + d
           /\ \E bad \in SUBSET {x \in Solver : Slot[x] \in BeforeAndAt} :
                sol' = SolveEquations(sol, d, start + cumTime + d, step,
                                      BeforeAndAt, realStep = 1, bad)
    /\ steady' \in SteadyOutcomes
    /\ pc' = "judge"
    /\ UNCHANGED <<interval, timestep, cum, realStep, step, dt, prevSizes, start,
                   cumTime, smallest, control, kept, saveVars>>

\* Some solver, executed in this sub-step or not, has NonlinConverged > 1.
HaveDivergence == \E x \in Solver : sol[x].diverged

DivergenceAccept ==
    /\ pc = "judge" /\ Control = "divergence"
    /\ ~ HaveDivergence
    /\ \E bad \in SUBSET {x \in Solver : Slot[x] \in After} :
         sol' = SolveEquations(sol, ddt, time, step, After, realStep = 1, bad)
    /\ cumTime' = cumTime + ddt
    /\ realStep' = realStep + 1
    /\ ddt' = MinOf(Increase(ddt), MaxSubStep(dt))
    /\ control' = IF Increase(ddt) > MaxSubStep(dt) THEN 0 ELSE control
    /\ pc' = "substep"
    /\ UNCHANGED <<interval, timestep, cum, step, time, dt, size, prevSizes, start,
                   smallest, kept, steady, saveVars>>

\* Slip: the diverged values are kept as the next initial guess.
RevertedNot == sol

\* The values go back to PrevValues(:,1); the rest of the history stays shifted.
Reverted == [x \in Solver |-> IF Transient /\ Order[x] > 0
                              THEN [sol[x] EXCEPT !.val = sol[x].prev[1]]
                              ELSE sol[x]]

DivergenceReject ==
    /\ pc = "judge" /\ Control = "divergence"
    /\ HaveDivergence /\ ~ AtMinimum
    /\ sol' = Reverted
    /\ ddt' = IF Decrease(ddt) > MinTimestep THEN Decrease(ddt) ELSE MinTimestep
    /\ control' = 1
    /\ pc' = "substep"
    /\ UNCHANGED <<interval, timestep, clockVars, start, cumTime, smallest, kept,
                   steady, saveVars>>

\* Fatal: 'Could not find stable timestep above given minimum'.
DivergenceFatal ==
    /\ pc = "judge" /\ Control = "divergence"
    /\ HaveDivergence /\ AtMinimum
    /\ pc' = "fatal"
    /\ UNCHANGED <<interval, timestep, clockVars, subStepVars, sol, steady, saveVars>>

\* The sub-steps cover the timestep.  Adaptive stepping sets the clock and the
\* step size back to those of the whole timestep; divergence control does not.
EndSubSteps ==
    /\ pc = "substep"
    /\ cumTime >= dt
    /\ IF Control = "adaptive" THEN size' = dt /\ time' = start + dt
                               ELSE UNCHANGED <<size, time>>
    /\ pc' = "save"
    /\ UNCHANGED <<interval, timestep, cum, realStep, step, dt, prevSizes, subStepVars,
                   sol, steady, saveVars>>

-----------------------------------------------------------------------------
(* Saving, leaving the loop, and the end of the simulation. *)

\* Slip: the fields are written before the solvers "before saving" were run.
SaveUnprepared(current) ==
    LET before == ActivateSlot(sol, "before saving", dt, time, step, Transient)
    IN  /\ result' = IF current THEN Append(result, Record(step, time, sol)) ELSE result
        /\ post' = Append(post, Record(step, time, sol))
        /\ sol' = ActivateSlot(before, "after saving", dt, time, step, Transient)

\* SaveCurrent, SaveToPost and the solvers before and after them.
Save(current) ==
    LET before == ActivateSlot(sol, "before saving", dt, time, step, Transient)
    IN  /\ result' = IF current THEN Append(result, Record(step, time, before)) ELSE result
        /\ post' = Append(post, Record(step, time, before))
        /\ sol' = ActivateSlot(before, "after saving", dt, time, step, Transient)

SaveStep ==
    /\ pc = "save"
    /\ IF /\ OutputIntervals[interval] # 0
          /\ (timestep - 1) % OutputIntervals[interval] = 0 \/ steady
       THEN Save(~ FinalOnly) /\ lastSaved' = TRUE
       ELSE lastSaved' = FALSE /\ UNCHANGED <<result, post, sol>>
    /\ pc' = "check"
    /\ UNCHANGED <<interval, timestep, clockVars, subStepVars, steady>>

NextTimestep ==
    /\ pc = "check"
    /\ ~ (steady /\ SimulationType = "steady" /\ timestep >= CoupledMinIter)
    /\ timestep' = timestep + 1
    /\ pc' = "step"
    /\ UNCHANGED <<interval, clockVars, subStepVars, sol, steady, saveVars>>

\* A steady state leaves the only interval of a steady run.
SteadyExit ==
    /\ pc = "check"
    /\ steady /\ SimulationType = "steady" /\ timestep >= CoupledMinIter
    /\ interval' = interval + 1
    /\ pc' = "after"
    /\ UNCHANGED <<timestep, clockVars, subStepVars, sol, steady, saveVars>>

\* 'Real Time Max', 'Exit Condition' or 'finish' leaves the loop.
EarlyExit ==
    /\ pc = "check" /\ MayExit
    /\ pc' = "after"
    /\ UNCHANGED <<interval, timestep, clockVars, subStepVars, sol, steady, saveVars>>

AfterSimulation ==
    /\ pc = "after"
    /\ sol' = ActivateSlot(sol, "after simulation", dt, time, step, Transient)
    /\ pc' = "final"
    /\ UNCHANGED <<interval, timestep, clockVars, subStepVars, steady, saveVars>>

\* Slip: the final save is done whether or not the last step was saved.
UnsavedAlways == TRUE

\* Slip: the final save is done only when nothing was saved at all.
UnsavedNothing == post = <<>>

\* The last step begun was not saved in the loop.
Unsaved == ~ lastSaved

FinalSave ==
    /\ pc = "final"
    /\ IF Unsaved
       THEN Save(~ FinalOnly)
       ELSE /\ result' = IF FinalOnly THEN Append(result, Record(step, time, sol)) ELSE result
            /\ UNCHANGED <<post, sol>>
    /\ pc' = "done"
    /\ UNCHANGED <<interval, timestep, clockVars, subStepVars, steady, lastSaved>>

Terminated == pc \in {"done", "fatal"} /\ UNCHANGED vars

-----------------------------------------------------------------------------
(* The specification. *)

SubStep ==
    \/ AdaptiveFull \/ AdaptiveHalves \/ AdaptiveAccept \/ AdaptiveReject
    \/ DivergenceTry \/ DivergenceAccept \/ DivergenceReject \/ DivergenceFatal
    \/ EndSubSteps

Next ==
    \/ BeforeSimulation
    \/ BeginTimestep \/ NextInterval
    \/ FixedStep \/ SubStep
    \/ SaveStep \/ NextTimestep \/ SteadyExit \/ EarlyExit
    \/ AfterSimulation \/ FinalSave
    \/ Terminated

Spec == Init /\ [][Next]_vars

\* The loop is one sequential program: it does not stop between two statements.
FairSpec == Spec /\ WF_vars(Next)

-----------------------------------------------------------------------------
(* Properties. *)

InSubSteps == pc \in {"substep", "halves", "judge"}

\* The instant up to which the simulation has accepted a solution.
Reached ==
    IF InSubSteps THEN start + cumTime
    ELSE IF pc = "fixed" /\ ~ (StartZero /\ cum = 1) THEN time - dt
    ELSE time

\* The solvers that follow the clock: they integrate in time in every step.
Integrates(x) ==
    /\ Transient
    /\ Slot[x] \in BeforeAndAt /\ Order[x] > 0
    /\ ExecInterval[x] = 1 /\ x \notin SkipFirst

Field == [val : Int, prev : [1 .. PrevSizesLen -> Int], done : Nat, diverged : BOOLEAN]

SaveRecord == [step : Nat, time : Int, level : [Solver -> Int]]

ClockTypeOK ==
    /\ cum \in Nat /\ realStep \in Nat \ {0} /\ step \in Nat
    /\ time \in Int /\ IsSize(dt) /\ size \in Nat
    /\ prevSizes \in [1 .. PrevSizesLen -> Nat]

SubStepTypeOK ==
    /\ start \in Int /\ (cumTime = 0 \/ IsSize(cumTime))
    /\ IsSize(ddt) \/ (ddt = -1 /\ ~ InSubSteps)
    /\ smallest \in Nat /\ control \in -1 .. 1
    /\ kept \in [Solver -> Field]

FlagTypeOK == steady \in BOOLEAN /\ lastSaved \in BOOLEAN

OutputTypeOK == result \in Seq(SaveRecord) /\ post \in Seq(SaveRecord)

TypeOK ==
    /\ pc \in {"start", "step", "fixed", "substep", "halves", "judge", "save",
               "check", "after", "final", "done", "fatal"}
    /\ interval \in 1 .. TimeIntervals + 1 /\ timestep \in Nat \ {0}
    /\ ClockTypeOK /\ SubStepTypeOK /\ FlagTypeOK /\ OutputTypeOK
    /\ sol \in [Solver -> Field]

\* Whenever a sub-step was accepted, taken back or not begun yet, the solution of
\* a time integrating solver is the one at the instant that the clock and CumTime
\* say it is: the trials of the adaptive scheme, the restored values, the two
\* half sub-steps and the sizes the solvers are called with agree with sTime.
SolutionAtClock ==
    (~ Rough /\ ~ StartZero /\ pc \notin {"halves", "judge"})
        => \A x \in Solver : Integrates(x) => sol[x].val = Reached

\* With fixed steps, the history of a multistep solver is spaced as the ladder of
\* previous step sizes says: Values and PrevValues(:,1) are sSize apart, and
\* PrevValues(:,i), PrevValues(:,i+1) are sPrevSizes(i) apart, over changes of
\* the step size and of the interval, up to the order reached so far.
HistoryMatchesSizes ==
    (Control = "fixed" /\ pc \in {"save", "check", "step"} /\ cum > 0)
        => \A x \in Solver : Integrates(x) =>
             /\ sol[x].val - sol[x].prev[1] = size
             /\ \A i \in 1 .. MinOf(sol[x].done, Order[x]) - 1 :
                  sol[x].prev[i] - sol[x].prev[i + 1] = prevSizes[i]

\* The sub-steps of a timestep never go past its end, and none is larger than
\* 'Adaptive Max Timestep' or than the timestep allows.
SubStepsFit ==
    (InSubSteps /\ ~ Rough) => /\ cumTime <= dt /\ ddt <= MaxSubStep(dt)
                               /\ pc \in {"halves", "judge"} => cumTime + ddt <= dt

\* The saved instants are strictly increasing: nothing is saved twice, neither by
\* the save of the last timestep and the final one nor after an early exit.
SavesAdvance ==
    \A r \in {result, post} : \A i, j \in 1 .. Len(r) : i < j => r[i].time < r[j].time

\* What is saved with a time is the state at that time, for the time integrating
\* solvers and for those evaluated in every step.
SavedFieldsAreCurrent ==
    \A r \in {result, post} : \A i \in 1 .. Len(r) : \A x \in Solver :
        \/ Integrates(x)
        \/ Slot[x] \in {"always", "before timestep", "before saving"}
           /\ Order[x] = 0 /\ ExecInterval[x] = 1 /\ x \notin SkipFirst
        => r[i].level[x] = r[i].time

\* A simulation that ends has written its last state ("Always save the last step
\* to output"), whatever the output intervals are and however the loop was left.
LastStateWritten ==
    pc = "done" => /\ Len(post) > 0 /\ post[Len(post)].time = time
                   /\ \A x \in Solver : Integrates(x) =>
                        post[Len(post)].level[x] = sol[x].val

\* A refused trial leaves no trace in the solution of any solver: after every
\* way back to the beginning of a sub-step without having accepted one, values
\* and history are what they were when the sub-step began.
RejectRestores ==
    [][ (pc = "judge" /\ pc' = "substep" /\ cumTime' = cumTime)
        => \A x \in Solver : sol'[x].val = kept[x].val /\ sol'[x].prev = kept[x].prev ]_vars

\* The simulation comes to its end: a refused sub-step is retried smaller, one
\* of the minimal size is accepted or gives up, and an accepted one counts.
Termination == <>(pc \in {"done", "fatal"})

\* The time loop implements the march in time that its output shows.
March == INSTANCE TimeMarch WITH
            reached <- Reached,
            written <- [i \in 1 .. Len(post) |-> post[i].time],
            ended   <- pc = "done"

MarchSpec == March!Spec

=============================================================================
