------------------------- MODULE TimeSteppingProofs -------------------------
(***************************************************************************)
(* Proofs about the time loop, for every case: any solvers, intervals,     *)
(* step sizes and coefficients that the assumptions of TimeStepping allow. *)
(***************************************************************************)
EXTENDS TimeStepping, TLAPS

-----------------------------------------------------------------------------
(* Facts about the helpers. *)

\* Half of a step is exact and positive; the smaller of two sizes is one of them.
LEMMA HalfSize ==
    ASSUME NEW d, IsSize(d)
    PROVE  d \in Nat /\ d > 0 /\ Half(d) \in Nat /\ Half(d) > 0 /\ Half(d) + Half(d) = d
  BY DEF IsSize, Half

LEMMA MinSize ==
    ASSUME NEW a, NEW b, IsSize(a), IsSize(b)
    PROVE  IsSize(MinOf(a, b)) /\ MinOf(a, b) <= a /\ MinOf(a, b) <= b
  BY DEF IsSize, Half, MinOf

\* Sums and differences of sizes are sizes.
LEMMA SumSize ==
    ASSUME NEW a, NEW b, a = 0 \/ IsSize(a), IsSize(b)
    PROVE  /\ IsSize(a + b)
           /\ b > a => IsSize(b - a)
  BY DEF IsSize, Half

\* A clipped sub-step is a size, it is not larger than it was, and it fits into
\* what is left unless the scheme is rough.
LEMMA ClipSize ==
    ASSUME NEW d, NEW left, IsSize(d), IsSize(left)
    PROVE  /\ IsSize(Clip(d, left))
           /\ Clip(d, left) <= d
           /\ ~ Rough => Clip(d, left) <= left
<1> DEFINE m == MinOf(left, d)
           h == 2 * ((left + 2) \div 4)
<1>1. IsSize(m) /\ m <= left /\ m <= d
  BY MinSize
<1>2. ASSUME left > m PROVE IsSize(h)
  <2>1. left \in Nat /\ left >= 2
    BY <1>1, <1>2 DEF IsSize, Half
  <2>2. (left + 2) \div 4 \in Nat /\ (left + 2) \div 4 > 0
    BY <2>1
  <2>3. \A k \in Nat : k > 0 => IsSize(2 * k)
    BY DEF IsSize, Half
  <2> QED
    BY <2>2, <2>3
<1>3. ASSUME left > m PROVE IsSize(MinOf(m, h)) /\ MinOf(m, h) <= m
  BY <1>1, <1>2, <1>3, MinSize
<1> QED
  BY <1>1, <1>3 DEF Clip, IsSize

\* Every solver keeps its type through the calls of the loop.
LEMMA InitializeTimestepType ==
    ASSUME NEW h \in Field, NEW order \in Nat
    PROVE  /\ InitializeTimestep(h, order) \in Field
           /\ InitializeTimestep(h, order).val = h.val
           /\ order > 0 => InitializeTimestep(h, order).prev[1] = h.val
<1> DEFINE used == MinOf(h.done + 1, order)
           new  == [i \in 1 .. PrevSizesLen |->
                      IF i > used THEN h.prev[i]
                      ELSE IF i = 1 THEN h.val ELSE h.prev[i - 1]]
<1>1. h.val \in Int /\ h.done \in Nat /\ h.diverged \in BOOLEAN
      /\ h.prev \in [1 .. PrevSizesLen -> Int]
  BY DEF Field
<1>2. used \in Nat /\ (order > 0 => used > 0)
  BY <1>1 DEF MinOf
<1>3. InitializeTimestep(h, order) = [h EXCEPT !.done = MinOf(h.done + 1, PrevSizesLen), !.prev = new]
  BY DEF InitializeTimestep
<1> HIDE DEF used
<1>4. new \in [1 .. PrevSizesLen -> Int] /\ (order > 0 => new[1] = h.val)
  BY <1>1, <1>2 DEF PrevSizesLen
<1> HIDE DEF new
<1>5. InitializeTimestep(h, order)
        = [val |-> h.val, prev |-> new, done |-> MinOf(h.done + 1, PrevSizesLen), diverged |-> h.diverged]
  BY <1>3 DEF Field
<1>6. MinOf(h.done + 1, PrevSizesLen) \in Nat
  BY <1>1 DEF MinOf, PrevSizesLen
<1> QED
  BY <1>1, <1>4, <1>5, <1>6 DEF Field

LEMMA ActivateType ==
    ASSUME NEW h \in Field, NEW x \in Solver, NEW d \in Int, NEW t \in Int, NEW st,
           NEW transient \in BOOLEAN, NEW bad \in BOOLEAN
    PROVE  Activate(h, x, d, t, st, transient, bad) \in Field
<1>1. h.prev[1] \in Int
  BY DEF Field, PrevSizesLen
<1> DEFINE v == IF transient /\ Order[x] > 0 THEN h.prev[1] + d ELSE t
<1>2. v \in Int
  BY <1>1
<1>3. Activate(h, x, d, t, st, transient, bad)
        = IF ~ Executes(x, st) THEN h ELSE [h EXCEPT !.val = v, !.diverged = bad]
  BY DEF Activate
<1> HIDE DEF v
<1> QED
  BY <1>2, <1>3 DEF Field

LEMMA SolveEquationsType ==
    ASSUME NEW u \in [Solver -> Field], NEW d \in Int, NEW t \in Int, NEW st,
           NEW slots, NEW first, NEW bad
    PROVE  SolveEquations(u, d, t, st, slots, first, bad) \in [Solver -> Field]
<1> SUFFICES ASSUME NEW x \in Solver
             PROVE  SolveEquations(u, d, t, st, slots, first, bad)[x] \in Field
  BY DEF SolveEquations
<1> DEFINE h == IF Transient THEN InitializeTimestep(u[x], Order[x]) ELSE u[x]
<1>1. h \in Field
  BY InitializeTimestepType, SolverAssumption
<1>2. Activate(h, x, d, t, st, Transient, x \in bad) \in Field
  <2>1. Transient \in BOOLEAN /\ (x \in bad) \in BOOLEAN
    BY DEF Transient
  <2> HIDE DEF h
  <2> QED
    BY <1>1, <2>1, ActivateType
<1> HIDE DEF h
<1> QED
  BY <1>1, <1>2 DEF SolveEquations, h

LEMMA ActivateSlotType ==
    ASSUME NEW u \in [Solver -> Field], NEW slot, NEW d \in Int, NEW t \in Int, NEW st,
           NEW transient \in BOOLEAN
    PROVE  ActivateSlot(u, slot, d, t, st, transient) \in [Solver -> Field]
  BY ActivateType DEF ActivateSlot

-----------------------------------------------------------------------------
(* Type correctness, and the bounds of the sub-steps. *)

InLoop == pc \in {"fixed", "substep", "halves", "judge", "save", "check"}

\* What the types rest on: the loop is inside an interval, and no sub-step is
\* larger than the keyword or the timestep allows.
LoopInv ==
    /\ InLoop => interval <= TimeIntervals
    /\ ddt <= MaxTimestep
    /\ InSubSteps => ddt <= MaxSubStep(dt)
    /\ (InSubSteps /\ ~ Rough) =>
         cumTime <= dt /\ (pc \in {"halves", "judge"} => cumTime + ddt <= dt)

TypeInv == TypeOK /\ LoopInv

LEMMA MaxSubStepSize ==
    ASSUME NEW d, IsSize(d)
    PROVE  IsSize(MaxSubStep(d)) /\ MaxSubStep(d) <= MaxTimestep /\ MaxSubStep(d) <= d
  BY MinSize, StepControlAssumption DEF MaxSubStep

LEMMA IncreaseSize ==
    ASSUME NEW d, IsSize(d), d <= MaxTimestep
    PROVE  IsSize(Increase(d)) /\ Increase(d) >= d
  BY StepControlAssumption DEF IsSize

LEMMA DecreaseSize ==
    ASSUME NEW d, IsSize(d), d <= MaxTimestep, d > MinTimestep
    PROVE  IsSize(Decrease(d)) /\ Decrease(d) < d
  BY StepControlAssumption DEF IsSize

LEMMA InitType == Init => TypeInv
<1> SUFFICES ASSUME Init PROVE TypeInv
  OBVIOUS
<1>1. InitialField \in Field
  BY DEF InitialField, Field
<1>2. sol \in [Solver -> Field] /\ kept \in [Solver -> Field]
  BY <1>1 DEF Init
<1>3. TimeIntervals \in Nat /\ TimeIntervals > 0
  BY LoopAssumption DEF TimeIntervals
<1>4. <<>> \in Seq(SaveRecord)
  OBVIOUS
<1>5. IsSize(2)
  BY DEF IsSize, Half
<1>6. TypeOK
  <2>1. ClockTypeOK
    BY <1>5 DEF Init, ClockTypeOK
  <2>2. SubStepTypeOK
    BY <1>2 DEF Init, SubStepTypeOK, InSubSteps
  <2>3. FlagTypeOK /\ OutputTypeOK
    BY <1>4 DEF Init, FlagTypeOK, OutputTypeOK
  <2>4. interval \in 1 .. TimeIntervals + 1
    BY <1>3 DEF Init
  <2> QED
    BY <1>2, <2>1, <2>2, <2>3, <2>4 DEF Init, TypeOK
<1>7. LoopInv
  BY StepControlAssumption DEF Init, LoopInv, InLoop, InSubSteps, IsSize
<1> QED
  BY <1>6, <1>7 DEF TypeInv

\* What the types give to the solvers' calls.
LEMMA TypeFacts ==
    ASSUME TypeInv
    PROVE  /\ sol \in [Solver -> Field] /\ kept \in [Solver -> Field]
           /\ time \in Int /\ start \in Int /\ cumTime \in Nat /\ size \in Nat
           /\ IsSize(dt) /\ dt \in Nat /\ dt > 0
           /\ step \in Nat /\ realStep \in Nat
           /\ InSubSteps => IsSize(ddt) /\ ddt \in Nat /\ ddt > 0 /\ Half(ddt) \in Nat
  BY HalfSize DEF TypeInv, TypeOK, ClockTypeOK, SubStepTypeOK, IsSize

\* The parts that an action leaves alone.
LEMMA SameClock ==
    ClockTypeOK /\ UNCHANGED clockVars => ClockTypeOK'
  BY DEF ClockTypeOK, clockVars

LEMMA SameOutput ==
    OutputTypeOK /\ FlagTypeOK /\ UNCHANGED saveVars
        => OutputTypeOK' /\ lastSaved' \in BOOLEAN
  BY DEF OutputTypeOK, FlagTypeOK, saveVars

LEMMA BeforeSimulationType == TypeInv /\ BeforeSimulation => TypeInv'
<1> SUFFICES ASSUME TypeInv, BeforeSimulation PROVE TypeInv'
  OBVIOUS
<1>1. sol' \in [Solver -> Field]
  <2>1. dt \in Int /\ time \in Int /\ sol \in [Solver -> Field]
    BY TypeFacts
  <2>2. ActivateSlot(sol, "before simulation", dt, time, step, FALSE) \in [Solver -> Field]
    BY <2>1, ActivateSlotType
  <2> QED
    BY <2>2 DEF BeforeSimulation
<1>2. ClockTypeOK' /\ OutputTypeOK' /\ FlagTypeOK'
  BY SameClock, SameOutput DEF TypeInv, TypeOK, BeforeSimulation, FlagTypeOK
<1>3. SubStepTypeOK' /\ LoopInv'
  BY DEF TypeInv, TypeOK, LoopInv, BeforeSimulation, SubStepTypeOK, subStepVars, clockVars,
         InLoop, InSubSteps, MaxSubStep
<1> QED
  BY <1>1, <1>2, <1>3 DEF TypeInv, TypeOK, BeforeSimulation

LEMMA BeginTimestepType == TypeInv /\ BeginTimestep => TypeInv'
<1> SUFFICES ASSUME TypeInv, BeginTimestep PROVE TypeInv'
  OBVIOUS
<1>1. PICK d \in ChosenSizes :
        LET now == IF cum = 0 /\ StartZero THEN time ELSE time + d
        IN  /\ cum' = cum + 1 /\ step' = cum + 1
            /\ dt' = d /\ time' = now
            /\ prevSizes' = ShiftedSizes /\ size' = d
            /\ IF (Transient /\ Control = "adaptive") \/ Control = "divergence"
               THEN /\ start' = now - d /\ cumTime' = 0 /\ ddt' = FirstSubStep(d)
                    /\ smallest' = IF Control = "adaptive" THEN 0 ELSE smallest
                    /\ pc' = "substep"
               ELSE UNCHANGED <<start, cumTime, ddt, smallest>> /\ pc' = "fixed"
  BY DEF BeginTimestep
<1>2. IsSize(d) /\ d \in Nat /\ d > 0
  <2>1. interval \in 1 .. Len(Timesteps)
    BY DEF TypeInv, TypeOK, BeginTimestep, TimeIntervals
  <2>2. IsSize(d)
    BY <2>1, TypeFacts, LoopAssumption DEF ChosenSizes
  <2> QED
    BY <2>2 DEF IsSize
<1>3. IsSize(FirstSubStep(d)) /\ FirstSubStep(d) <= MaxSubStep(d)
  <2> DEFINE next == IF Control = "divergence" /\ ddt > 0 THEN Increase(ddt) ELSE ddt
  <2>1. IsSize(MaxSubStep(d))
    BY <1>2, MaxSubStepSize
  <2>2. next = -1 \/ IsSize(next)
    BY IncreaseSize DEF TypeInv, TypeOK, SubStepTypeOK, LoopInv, IsSize
  <2>3. FirstSubStep(d) = IF next < 0 \/ next > MaxSubStep(d) THEN MaxSubStep(d) ELSE next
    BY DEF FirstSubStep
  <2> HIDE DEF next
  <2> QED
    BY <2>1, <2>2, <2>3 DEF IsSize
<1>4. ClockTypeOK'
  <2>1. ShiftedSizes \in [1 .. PrevSizesLen -> Nat]
    BY DEF TypeInv, TypeOK, ClockTypeOK, ShiftedSizes, PrevSizesLen
  <2> QED
    BY <1>1, <1>2, <2>1 DEF TypeInv, TypeOK, ClockTypeOK, BeginTimestep
<1>5. SubStepTypeOK'
  BY <1>1, <1>2, <1>3 DEF TypeInv, TypeOK, ClockTypeOK, SubStepTypeOK, BeginTimestep, InSubSteps
<1>6. OutputTypeOK' /\ FlagTypeOK'
  BY SameOutput DEF TypeInv, TypeOK, BeginTimestep, FlagTypeOK
<1>7. LoopInv'
  <2>1. MaxSubStep(d) <= MaxTimestep /\ MaxSubStep(d) <= d /\ IsSize(MaxSubStep(d))
    BY <1>2, MaxSubStepSize
  <2>2. ddt' <= MaxTimestep /\ (InSubSteps' => ddt' <= MaxSubStep(dt'))
    BY <1>1, <1>2, <1>3, <2>1, StepControlAssumption
       DEF TypeInv, LoopInv, BeginTimestep, InSubSteps, IsSize
  <2> QED
    BY <1>1, <1>2, <2>2 DEF TypeInv, TypeOK, LoopInv, BeginTimestep, InLoop, InSubSteps, MaxSubStep
<1> QED
  BY <1>1, <1>4, <1>5, <1>6, <1>7 DEF TypeInv, TypeOK, BeginTimestep

LEMMA NextIntervalType == TypeInv /\ NextInterval => TypeInv'
<1> SUFFICES ASSUME TypeInv, NextInterval PROVE TypeInv'
  OBVIOUS
<1>1. ClockTypeOK' /\ SubStepTypeOK'
  BY DEF TypeInv, TypeOK, ClockTypeOK, SubStepTypeOK, NextInterval, subStepVars, InSubSteps
<1>2. OutputTypeOK' /\ FlagTypeOK'
  BY SameOutput DEF TypeInv, TypeOK, NextInterval, FlagTypeOK
<1>3. interval' \in 1 .. TimeIntervals + 1 /\ timestep' \in Nat \ {0}
  BY LoopAssumption DEF TypeInv, TypeOK, NextInterval, TimeIntervals
<1>4. LoopInv'
  BY DEF TypeInv, LoopInv, NextInterval, subStepVars, InLoop, InSubSteps, MaxSubStep
<1> QED
  BY <1>1, <1>2, <1>3, <1>4 DEF TypeInv, TypeOK, NextInterval

LEMMA FixedStepType == TypeInv /\ FixedStep => TypeInv'
<1> SUFFICES ASSUME TypeInv, FixedStep PROVE TypeInv'
  OBVIOUS
<1>1. sol' \in [Solver -> Field]
  BY TypeFacts, SolveEquationsType DEF FixedStep
<1>2. steady' \in BOOLEAN
  BY DEF TypeInv, TypeOK, FlagTypeOK, FixedStep, SteadyOutcomes
<1>3. OutputTypeOK' /\ FlagTypeOK'
  BY <1>2, SameOutput DEF TypeInv, TypeOK, FixedStep, FlagTypeOK
<1>4. ClockTypeOK' /\ SubStepTypeOK' /\ LoopInv'
  BY DEF TypeInv, TypeOK, ClockTypeOK, SubStepTypeOK, LoopInv, FixedStep, subStepVars,
         InLoop, InSubSteps, MaxSubStep
<1> QED
  BY <1>1, <1>3, <1>4 DEF TypeInv, TypeOK, FixedStep

LEMMA RestoredType == TypeInv => Restored \in [Solver -> Field]
<1> SUFFICES ASSUME TypeInv, NEW x \in Solver PROVE Restored[x] \in Field
  BY DEF Restored
<1>1. sol[x] \in Field /\ kept[x] \in Field
  BY TypeFacts
<1> QED
  BY <1>1 DEF Restored, Field

LEMMA RevertedType == TypeInv => Reverted \in [Solver -> Field]
<1> SUFFICES ASSUME TypeInv, NEW x \in Solver PROVE Reverted[x] \in Field
  BY DEF Reverted
<1>1. sol[x] \in Field
  BY TypeFacts
<1>2. sol[x].prev[1] \in Int
  BY <1>1 DEF Field, PrevSizesLen
<1> QED
  BY <1>1, <1>2 DEF Reverted, Field

\* The sub-step that is tried is a size that fits.
LEMMA TriedSize ==
    ASSUME TypeInv, pc = "substep", cumTime < dt
    PROVE  /\ IsSize(Clip(ddt, dt - cumTime))
           /\ Clip(ddt, dt - cumTime) \in Nat
           /\ Clip(ddt, dt - cumTime) <= ddt
           /\ ~ Rough => cumTime + Clip(ddt, dt - cumTime) <= dt
<1>1. IsSize(ddt)
  BY TypeFacts DEF InSubSteps
<1>2. IsSize(dt - cumTime)
  <2>1. IsSize(dt) /\ (cumTime = 0 \/ IsSize(cumTime))
    BY DEF TypeInv, TypeOK, ClockTypeOK, SubStepTypeOK
  <2>2. dt > cumTime
    BY <2>1 DEF IsSize
  <2> QED
    BY <2>1, <2>2, SumSize
<1> QED
  BY <1>1, <1>2, ClipSize, TypeFacts DEF IsSize

LEMMA AdaptiveFullType == TypeInv /\ AdaptiveFull => TypeInv'
<1> SUFFICES ASSUME TypeInv, AdaptiveFull PROVE TypeInv'
  OBVIOUS
<1> DEFINE d == Clip(ddt, dt - cumTime)
<1>1. /\ IsSize(d) /\ d \in Nat /\ d > 0 /\ d <= ddt
      /\ ~ Rough => cumTime + d <= dt
  BY TriedSize DEF AdaptiveFull, IsSize
<1>2. /\ ddt' = d /\ size' = d /\ time' = start + cumTime + d /\ kept' = sol
      /\ sol' = SolveEquations(sol, d, start + cumTime + d, step, BeforeAndAt, realStep = 1, {})
      /\ pc = "substep" /\ pc' = "halves"
  BY DEF AdaptiveFull
<1> HIDE DEF d
<1>3. start + cumTime + d \in Int /\ d \in Int
  BY <1>1, TypeFacts
<1>4. sol' \in [Solver -> Field] /\ kept' \in [Solver -> Field]
  BY <1>2, <1>3, TypeFacts, SolveEquationsType
<1>5. OutputTypeOK' /\ FlagTypeOK'
  BY SameOutput DEF TypeInv, TypeOK, AdaptiveFull, FlagTypeOK
<1>6. ClockTypeOK' /\ SubStepTypeOK'
  BY <1>1, <1>2, <1>3, <1>4
     DEF TypeInv, TypeOK, ClockTypeOK, SubStepTypeOK, AdaptiveFull, InSubSteps
<1>7. LoopInv'
  <2>1. MaxSubStep(dt) \in Int /\ MaxTimestep \in Int /\ ddt \in Int
    BY MaxSubStepSize, StepControlAssumption, TypeFacts, <1>2 DEF IsSize, InSubSteps
  <2>2. ddt <= MaxTimestep /\ ddt <= MaxSubStep(dt) /\ interval <= TimeIntervals
    BY <1>2 DEF TypeInv, LoopInv, InSubSteps, InLoop
  <2>3. MaxSubStep(dt') = MaxSubStep(dt)
    BY DEF AdaptiveFull
  <2>4. dt' = dt /\ cumTime' = cumTime /\ interval' = interval /\ cumTime \in Int /\ dt \in Int
    BY TypeFacts DEF AdaptiveFull
  <2> QED
    BY <1>1, <1>2, <2>1, <2>2, <2>3, <2>4 DEF LoopInv, InSubSteps, InLoop
<1> QED
  BY <1>4, <1>5, <1>6, <1>7 DEF TypeInv, TypeOK, AdaptiveFull

LEMMA AdaptiveHalvesType == TypeInv /\ AdaptiveHalves => TypeInv'
<1> SUFFICES ASSUME TypeInv, AdaptiveHalves PROVE TypeInv'
  OBVIOUS
<1> DEFINE h      == Half(ddt)
           now    == start + cumTime
           first  == SolveEquations(Restored, h, now + h, h, BeforeAndAt, realStep = 1, {})
           second == SolveEquations(first, h, now + ddt, h, BeforeAndAt, realStep = 1, {})
<1>1. step' = h /\ time' = now + ddt /\ sol' = second /\ pc = "halves" /\ pc' = "judge"
  BY DEF AdaptiveHalves
<1>2. h \in Nat /\ h \in Int /\ now + h \in Int /\ now + ddt \in Int
  BY <1>1, TypeFacts DEF InSubSteps
<1> HIDE DEF h, now
<1>3. first \in [Solver -> Field]
  BY <1>2, RestoredType, SolveEquationsType
<1> HIDE DEF first
<1>4. sol' \in [Solver -> Field]
  BY <1>1, <1>2, <1>3, SolveEquationsType
<1>5. OutputTypeOK' /\ FlagTypeOK'
  BY SameOutput DEF TypeInv, TypeOK, AdaptiveHalves, FlagTypeOK
<1> HIDE DEF second
<1>6. ClockTypeOK' /\ SubStepTypeOK' /\ LoopInv'
  BY <1>1, <1>2 DEF TypeInv, TypeOK, ClockTypeOK, SubStepTypeOK, LoopInv, AdaptiveHalves,
                    subStepVars, InLoop, InSubSteps, MaxSubStep
<1> QED
  BY <1>4, <1>5, <1>6 DEF TypeInv, TypeOK, AdaptiveHalves

\* An enlarged sub-step is a size that fits.
LEMMA EnlargedSize ==
    ASSUME TypeInv, pc = "judge"
    PROVE  /\ IsSize(Increase(ddt)) /\ IsSize(MaxSubStep(dt))
           /\ IsSize(MinOf(Increase(ddt), MaxSubStep(dt)))
           /\ MinOf(Increase(ddt), MaxSubStep(dt)) <= MaxSubStep(dt)
           /\ MaxSubStep(dt) <= MaxTimestep
           /\ ddt <= MaxSubStep(dt)
<1>1. IsSize(ddt) /\ ddt <= MaxTimestep /\ ddt <= MaxSubStep(dt)
  BY TypeFacts DEF TypeInv, LoopInv, InSubSteps
<1>2. IsSize(MaxSubStep(dt)) /\ MaxSubStep(dt) <= MaxTimestep
  BY TypeFacts, MaxSubStepSize
<1> QED
  BY <1>1, <1>2, IncreaseSize, MinSize

LEMMA AdaptiveAcceptType == TypeInv /\ AdaptiveAccept => TypeInv'
<1> SUFFICES ASSUME TypeInv, AdaptiveAccept PROVE TypeInv'
  OBVIOUS
<1>1. /\ pc = "judge" /\ pc' = "substep"
      /\ cumTime' = cumTime + ddt /\ dt' = dt /\ interval' = interval
      /\ ddt' = MinOf(Increase(ddt), MaxSubStep(dt)) \/ ddt' = ddt
      /\ sol' = SolveEquations(sol, Half(ddt'), time, step, After, realStep' = 1, {})
  BY DEF AdaptiveAccept
<1>2. IsSize(ddt) /\ ddt \in Nat
  BY <1>1, TypeFacts DEF InSubSteps
<1>3. IsSize(ddt') /\ ddt' <= MaxSubStep(dt) /\ ddt' <= MaxTimestep
  <2> DEFINE new == MinOf(Increase(ddt), MaxSubStep(dt))
             max == MaxSubStep(dt)
  <2>1. IsSize(new) /\ new <= max /\ max <= MaxTimestep /\ ddt <= max /\ IsSize(max)
    BY <1>1, EnlargedSize
  <2>2. ddt' = new \/ ddt' = ddt
    BY <1>1
  <2> HIDE DEF new, max
  <2>3. IsSize(ddt') /\ ddt' <= max /\ max <= MaxTimestep /\ IsSize(max)
    BY <1>2, <2>1, <2>2
  <2>4. ddt' <= MaxTimestep
    BY <2>3, StepControlAssumption DEF IsSize
  <2> QED
    BY <2>3, <2>4 DEF max
<1>4. Half(ddt') \in Int
  BY <1>3, HalfSize
<1>5. sol' \in [Solver -> Field]
  BY <1>1, <1>4, TypeFacts, SolveEquationsType
<1>6. cumTime' = 0 \/ IsSize(cumTime')
  BY <1>1, <1>2, SumSize DEF TypeInv, TypeOK, SubStepTypeOK
<1>7. OutputTypeOK' /\ FlagTypeOK'
  BY SameOutput DEF TypeInv, TypeOK, AdaptiveAccept, FlagTypeOK
<1>8. SubStepTypeOK'
  <2>1. smallest' \in Nat /\ control' \in -1 .. 1
    BY DEF TypeInv, TypeOK, SubStepTypeOK, AdaptiveAccept
  <2> QED
    BY <1>3, <1>6, <2>1 DEF TypeInv, TypeOK, SubStepTypeOK, AdaptiveAccept
<1>9. ClockTypeOK'
  BY DEF TypeInv, TypeOK, ClockTypeOK, AdaptiveAccept
<1>10. LoopInv'
  <2>1. ~ Rough => cumTime' <= dt
    BY <1>1 DEF TypeInv, LoopInv, InSubSteps
  <2> QED
    BY <1>1, <1>3, <2>1 DEF TypeInv, LoopInv, InLoop, InSubSteps
<1> QED
  BY <1>5, <1>7, <1>8, <1>9, <1>10 DEF TypeInv, TypeOK, AdaptiveAccept

LEMMA AdaptiveRejectType == TypeInv /\ AdaptiveReject => TypeInv'
<1> SUFFICES ASSUME TypeInv, AdaptiveReject PROVE TypeInv'
  OBVIOUS
<1>1. /\ pc = "judge" /\ pc' = "substep" /\ ddt' = Decrease(ddt) /\ ddt > MinTimestep
      /\ dt' = dt /\ cumTime' = cumTime /\ interval' = interval
  <2>1. IsSize(ddt) /\ IsSize(MinTimestep)
    BY TypeFacts, StepControlAssumption DEF AdaptiveReject, InSubSteps
  <2> QED
    BY <2>1 DEF AdaptiveReject, clockVars, AtMinimum, IsSize
<1>2. IsSize(ddt) /\ ddt <= MaxTimestep /\ ddt <= MaxSubStep(dt) /\ IsSize(MaxSubStep(dt))
  BY <1>1, EnlargedSize, TypeFacts DEF TypeInv, LoopInv, InSubSteps
<1>3. IsSize(ddt') /\ ddt' < ddt
  BY <1>1, <1>2, DecreaseSize
<1>4. sol' \in [Solver -> Field]
  BY RestoredType DEF AdaptiveReject
<1>5. ClockTypeOK' /\ OutputTypeOK' /\ FlagTypeOK'
  BY SameClock, SameOutput DEF TypeInv, TypeOK, AdaptiveReject, FlagTypeOK
<1>6. SubStepTypeOK'
  BY <1>3 DEF TypeInv, TypeOK, SubStepTypeOK, AdaptiveReject
<1>7. LoopInv'
  <2>1. ddt' <= MaxTimestep /\ ddt' <= MaxSubStep(dt)
    BY <1>2, <1>3, StepControlAssumption DEF IsSize
  <2> QED
    BY <1>1, <2>1 DEF TypeInv, LoopInv, InLoop, InSubSteps
<1> QED
  BY <1>4, <1>5, <1>6, <1>7 DEF TypeInv, TypeOK, AdaptiveReject

LEMMA DivergenceTryType == TypeInv /\ DivergenceTry => TypeInv'
<1> SUFFICES ASSUME TypeInv, DivergenceTry PROVE TypeInv'
  OBVIOUS
<1> DEFINE d == Clip(ddt, dt - cumTime)
<1>1. /\ IsSize(d) /\ d \in Nat /\ d > 0 /\ d <= ddt
      /\ ~ Rough => cumTime + d <= dt
  BY TriedSize DEF DivergenceTry, IsSize
<1>2. /\ ddt' = d /\ size' = d /\ time' = start + cumTime + d
      /\ pc = "substep" /\ pc' = "judge"
      /\ \E bad \in SUBSET {x \in Solver : Slot[x] \in BeforeAndAt} :
           sol' = SolveEquations(sol, d, start + cumTime + d, step,
                                 BeforeAndAt, realStep = 1, bad)
  BY DEF DivergenceTry
<1> HIDE DEF d
<1>3. start + cumTime + d \in Int /\ d \in Int
  BY <1>1, TypeFacts
<1>4. sol' \in [Solver -> Field]
  BY <1>2, <1>3, TypeFacts, SolveEquationsType
<1>5. steady' \in BOOLEAN
  BY DEF TypeInv, TypeOK, FlagTypeOK, DivergenceTry, SteadyOutcomes
<1>6. OutputTypeOK' /\ FlagTypeOK'
  BY <1>5, SameOutput DEF TypeInv, TypeOK, DivergenceTry, FlagTypeOK
<1>7. ClockTypeOK' /\ SubStepTypeOK'
  BY <1>1, <1>2, <1>3
     DEF TypeInv, TypeOK, ClockTypeOK, SubStepTypeOK, DivergenceTry, InSubSteps
<1>8. LoopInv'
  <2>1. MaxSubStep(dt) \in Int /\ MaxTimestep \in Int /\ ddt \in Int
    BY MaxSubStepSize, StepControlAssumption, TypeFacts, <1>2 DEF IsSize, InSubSteps
  <2>2. ddt <= MaxTimestep /\ ddt <= MaxSubStep(dt) /\ interval <= TimeIntervals
    BY <1>2 DEF TypeInv, LoopInv, InSubSteps, InLoop
  <2>3. MaxSubStep(dt') = MaxSubStep(dt)
    BY DEF DivergenceTry
  <2>4. dt' = dt /\ cumTime' = cumTime /\ interval' = interval /\ cumTime \in Int /\ dt \in Int
    BY TypeFacts DEF DivergenceTry
  <2> QED
    BY <1>1, <1>2, <2>1, <2>2, <2>3, <2>4 DEF LoopInv, InSubSteps, InLoop
<1> QED
  BY <1>4, <1>6, <1>7, <1>8 DEF TypeInv, TypeOK, DivergenceTry

LEMMA DivergenceAcceptType == TypeInv /\ DivergenceAccept => TypeInv'
<1> SUFFICES ASSUME TypeInv, DivergenceAccept PROVE TypeInv'
  OBVIOUS
<1>1. /\ pc = "judge" /\ pc' = "substep"
      /\ cumTime' = cumTime + ddt /\ dt' = dt /\ interval' = interval
      /\ ddt' = MinOf(Increase(ddt), MaxSubStep(dt))
      /\ \E bad \in SUBSET {x \in Solver : Slot[x] \in After} :
           sol' = SolveEquations(sol, ddt, time, step, After, realStep = 1, bad)
  BY DEF DivergenceAccept
<1>2. IsSize(ddt) /\ ddt \in Int
  BY <1>1, TypeFacts DEF InSubSteps
<1>3. IsSize(ddt') /\ ddt' <= MaxSubStep(dt) /\ ddt' <= MaxTimestep
  <2> DEFINE new == MinOf(Increase(ddt), MaxSubStep(dt))
             max == MaxSubStep(dt)
  <2>1. IsSize(new) /\ new <= max /\ max <= MaxTimestep /\ IsSize(max) /\ ddt' = new
    BY <1>1, EnlargedSize
  <2> HIDE DEF new, max
  <2>2. ddt' <= MaxTimestep
    BY <2>1, StepControlAssumption DEF IsSize
  <2> QED
    BY <2>1, <2>2 DEF max
<1>4. sol' \in [Solver -> Field]
  BY <1>1, <1>2, TypeFacts, SolveEquationsType
<1>5. cumTime' = 0 \/ IsSize(cumTime')
  BY <1>1, <1>2, SumSize DEF TypeInv, TypeOK, SubStepTypeOK
<1>6. OutputTypeOK' /\ FlagTypeOK'
  BY SameOutput DEF TypeInv, TypeOK, DivergenceAccept, FlagTypeOK
<1>7. SubStepTypeOK'
  <2>1. smallest' \in Nat /\ control' \in -1 .. 1
    BY DEF TypeInv, TypeOK, SubStepTypeOK, DivergenceAccept
  <2> QED
    BY <1>3, <1>5, <2>1 DEF TypeInv, TypeOK, SubStepTypeOK, DivergenceAccept
<1>8. ClockTypeOK'
  BY DEF TypeInv, TypeOK, ClockTypeOK, DivergenceAccept
<1>9. LoopInv'
  <2>1. ~ Rough => cumTime' <= dt
    BY <1>1 DEF TypeInv, LoopInv, InSubSteps
  <2> QED
    BY <1>1, <1>3, <2>1 DEF TypeInv, LoopInv, InLoop, InSubSteps
<1> QED
  BY <1>4, <1>6, <1>7, <1>8, <1>9 DEF TypeInv, TypeOK, DivergenceAccept

LEMMA DivergenceRejectType == TypeInv /\ DivergenceReject => TypeInv'
<1> SUFFICES ASSUME TypeInv, DivergenceReject PROVE TypeInv'
  OBVIOUS
<1>1. /\ pc = "judge" /\ pc' = "substep" /\ ddt > MinTimestep
      /\ ddt' = IF Decrease(ddt) > MinTimestep THEN Decrease(ddt) ELSE MinTimestep
      /\ dt' = dt /\ cumTime' = cumTime /\ interval' = interval
  <2>1. IsSize(ddt) /\ IsSize(MinTimestep)
    BY TypeFacts, StepControlAssumption DEF DivergenceReject, InSubSteps
  <2> QED
    BY <2>1 DEF DivergenceReject, clockVars, AtMinimum, IsSize
<1>2. IsSize(ddt) /\ ddt <= MaxTimestep /\ ddt <= MaxSubStep(dt) /\ IsSize(MaxSubStep(dt))
  BY <1>1, EnlargedSize, TypeFacts DEF TypeInv, LoopInv, InSubSteps
<1>3. IsSize(ddt') /\ ddt' < ddt
  BY <1>1, <1>2, DecreaseSize, StepControlAssumption
<1>4. sol' \in [Solver -> Field]
  BY RevertedType DEF DivergenceReject
<1>5. ClockTypeOK' /\ OutputTypeOK' /\ FlagTypeOK'
  BY SameClock, SameOutput DEF TypeInv, TypeOK, DivergenceReject, FlagTypeOK
<1>6. SubStepTypeOK'
  BY <1>3 DEF TypeInv, TypeOK, SubStepTypeOK, DivergenceReject
<1>7. LoopInv'
  <2>1. ddt' <= MaxTimestep /\ ddt' <= MaxSubStep(dt)
    BY <1>2, <1>3, StepControlAssumption DEF IsSize
  <2> QED
    BY <1>1, <2>1 DEF TypeInv, LoopInv, InLoop, InSubSteps
<1> QED
  BY <1>4, <1>5, <1>6, <1>7 DEF TypeInv, TypeOK, DivergenceReject

LEMMA DivergenceFatalType == TypeInv /\ DivergenceFatal => TypeInv'
<1> SUFFICES ASSUME TypeInv, DivergenceFatal PROVE TypeInv'
  OBVIOUS
<1>1. ClockTypeOK' /\ OutputTypeOK' /\ FlagTypeOK'
  BY SameClock, SameOutput DEF TypeInv, TypeOK, DivergenceFatal, FlagTypeOK
<1>2. SubStepTypeOK' /\ LoopInv'
  BY DEF TypeInv, TypeOK, LoopInv, DivergenceFatal, SubStepTypeOK, subStepVars, clockVars,
         InLoop, InSubSteps, MaxSubStep
<1> QED
  BY <1>1, <1>2 DEF TypeInv, TypeOK, DivergenceFatal

LEMMA EndSubStepsType == TypeInv /\ EndSubSteps => TypeInv'
<1> SUFFICES ASSUME TypeInv, EndSubSteps PROVE TypeInv'
  OBVIOUS
<1>1. size' \in Nat /\ time' \in Int
  BY TypeFacts DEF EndSubSteps
<1>2. OutputTypeOK' /\ FlagTypeOK'
  BY SameOutput DEF TypeInv, TypeOK, EndSubSteps, FlagTypeOK
<1>3. ClockTypeOK' /\ SubStepTypeOK' /\ LoopInv'
  BY <1>1 DEF TypeInv, TypeOK, ClockTypeOK, SubStepTypeOK, LoopInv, EndSubSteps, subStepVars,
              InLoop, InSubSteps, MaxSubStep
<1> QED
  BY <1>2, <1>3 DEF TypeInv, TypeOK, EndSubSteps

\* A save appends a record of the types of the clock and of the fields.
LEMMA SaveType ==
    ASSUME TypeInv, NEW current \in BOOLEAN, Save(current)
    PROVE  OutputTypeOK' /\ sol' \in [Solver -> Field]
<1> DEFINE before == ActivateSlot(sol, "before saving", dt, time, step, Transient)
<1>1. Transient \in BOOLEAN /\ dt \in Int /\ time \in Int /\ step \in Nat
  BY TypeFacts DEF Transient
<1>2. before \in [Solver -> Field]
  BY <1>1, TypeFacts, ActivateSlotType
<1>3. /\ result' = IF current THEN Append(result, Record(step, time, before)) ELSE result
      /\ post' = Append(post, Record(step, time, before))
      /\ sol' = ActivateSlot(before, "after saving", dt, time, step, Transient)
  BY DEF Save
<1> HIDE DEF before
<1>4. sol' \in [Solver -> Field]
  BY <1>1, <1>2, <1>3, ActivateSlotType
<1>5. Record(step, time, before) \in SaveRecord
  <2>1. \A x \in Solver : before[x].val \in Int
    BY <1>2 DEF Field
  <2> QED
    BY <1>1, <2>1 DEF Record, SaveRecord
<1>6. OutputTypeOK'
  <2> DEFINE r == Record(step, time, before)
  <2>1. result \in Seq(SaveRecord) /\ post \in Seq(SaveRecord) /\ r \in SaveRecord
    BY <1>5 DEF TypeInv, TypeOK, OutputTypeOK
  <2>2. post' = Append(post, r) /\ (result' = Append(result, r) \/ result' = result)
    BY <1>3
  <2> HIDE DEF r
  <2>3. Append(post, r) \in Seq(SaveRecord) /\ Append(result, r) \in Seq(SaveRecord)
    BY <2>1
  <2> QED
    BY <2>1, <2>2, <2>3 DEF OutputTypeOK
<1> QED
  BY <1>4, <1>6

LEMMA SaveStepType == TypeInv /\ SaveStep => TypeInv'
<1> SUFFICES ASSUME TypeInv, SaveStep PROVE TypeInv'
  OBVIOUS
<1>1. /\ (Save(~ FinalOnly) /\ lastSaved' = TRUE)
         \/ (lastSaved' = FALSE /\ UNCHANGED <<result, post, sol>>)
  BY DEF SaveStep
<1>2. FinalOnly \in BOOLEAN
  BY LoopAssumption
<1>3. OutputTypeOK' /\ sol' \in [Solver -> Field]
  <2>1. CASE Save(~ FinalOnly)
    BY <1>2, <2>1, SaveType
  <2>2. CASE UNCHANGED <<result, post, sol>>
    BY <2>2, TypeFacts DEF TypeInv, TypeOK, OutputTypeOK
  <2> QED
    BY <1>1, <2>1, <2>2
<1>4. FlagTypeOK'
  BY <1>1 DEF TypeInv, TypeOK, FlagTypeOK, SaveStep
<1>5. ClockTypeOK'
  BY SameClock DEF TypeInv, TypeOK, SaveStep
<1>6. SubStepTypeOK' /\ LoopInv'
  BY DEF TypeInv, TypeOK, LoopInv, SaveStep, SubStepTypeOK, subStepVars, clockVars,
         InLoop, InSubSteps, MaxSubStep
<1> QED
  BY <1>3, <1>4, <1>5, <1>6 DEF TypeInv, TypeOK, SaveStep

LEMMA NextTimestepType == TypeInv /\ NextTimestep => TypeInv'
<1> SUFFICES ASSUME TypeInv, NextTimestep PROVE TypeInv'
  OBVIOUS
<1>1. ClockTypeOK' /\ OutputTypeOK' /\ FlagTypeOK'
  BY SameClock, SameOutput DEF TypeInv, TypeOK, NextTimestep, FlagTypeOK
<1>2. SubStepTypeOK' /\ LoopInv'
  BY DEF TypeInv, TypeOK, LoopInv, NextTimestep, SubStepTypeOK, subStepVars, clockVars,
         InLoop, InSubSteps, MaxSubStep
<1>3. timestep' \in Nat \ {0}
  BY DEF TypeInv, TypeOK, NextTimestep
<1> QED
  BY <1>1, <1>2, <1>3 DEF TypeInv, TypeOK, NextTimestep

LEMMA ExitType == TypeInv /\ (SteadyExit \/ EarlyExit) => TypeInv'
<1> SUFFICES ASSUME TypeInv, SteadyExit \/ EarlyExit PROVE TypeInv'
  OBVIOUS
<1>1. /\ pc = "check" /\ pc' = "after"
      /\ interval' = interval \/ interval' = interval + 1
      /\ UNCHANGED <<timestep, clockVars, subStepVars, sol, steady, saveVars>>
  BY DEF SteadyExit, EarlyExit
<1>2. ClockTypeOK' /\ OutputTypeOK' /\ FlagTypeOK'
  BY <1>1, SameClock, SameOutput DEF TypeInv, TypeOK, FlagTypeOK
<1>3. SubStepTypeOK' /\ LoopInv'
  BY <1>1 DEF TypeInv, TypeOK, LoopInv, SubStepTypeOK, subStepVars, clockVars,
              InLoop, InSubSteps, MaxSubStep
<1>4. interval' \in 1 .. TimeIntervals + 1
  BY <1>1, LoopAssumption DEF TypeInv, TypeOK, LoopInv, InLoop, TimeIntervals
<1> QED
  BY <1>1, <1>2, <1>3, <1>4 DEF TypeInv, TypeOK

LEMMA AfterSimulationType == TypeInv /\ AfterSimulation => TypeInv'
<1> SUFFICES ASSUME TypeInv, AfterSimulation PROVE TypeInv'
  OBVIOUS
<1>1. sol' \in [Solver -> Field]
  <2>1. dt \in Int /\ time \in Int /\ sol \in [Solver -> Field]
    BY TypeFacts
  <2>2. Transient \in BOOLEAN
    BY DEF Transient
  <2>3. ActivateSlot(sol, "after simulation", dt, time, step, Transient) \in [Solver -> Field]
    BY <2>1, <2>2, ActivateSlotType
  <2> QED
    BY <2>3 DEF AfterSimulation
<1>2. ClockTypeOK' /\ OutputTypeOK' /\ FlagTypeOK'
  BY SameClock, SameOutput DEF TypeInv, TypeOK, AfterSimulation, FlagTypeOK
<1>3. SubStepTypeOK' /\ LoopInv'
  BY DEF TypeInv, TypeOK, LoopInv, AfterSimulation, SubStepTypeOK, subStepVars, clockVars,
         InLoop, InSubSteps, MaxSubStep
<1> QED
  BY <1>1, <1>2, <1>3 DEF TypeInv, TypeOK, AfterSimulation

LEMMA FinalSaveType == TypeInv /\ FinalSave => TypeInv'
<1> SUFFICES ASSUME TypeInv, FinalSave PROVE TypeInv'
  OBVIOUS
<1>1. FinalOnly \in BOOLEAN
  BY LoopAssumption
<1>2. \/ Save(~ FinalOnly)
      \/ /\ result' = IF FinalOnly THEN Append(result, Record(step, time, sol)) ELSE result
         /\ UNCHANGED <<post, sol>>
  BY DEF FinalSave
<1>3. Record(step, time, sol) \in SaveRecord
  <2>1. sol \in [Solver -> Field] /\ time \in Int /\ step \in Nat
    BY TypeFacts
  <2>2. \A x \in Solver : sol[x].val \in Int
    BY <2>1 DEF Field
  <2> QED
    BY <2>1, <2>2 DEF Record, SaveRecord
<1>4. OutputTypeOK' /\ sol' \in [Solver -> Field]
  <2>1. CASE Save(~ FinalOnly)
    BY <1>1, <2>1, SaveType
  <2>2. CASE /\ result' = IF FinalOnly THEN Append(result, Record(step, time, sol)) ELSE result
             /\ UNCHANGED <<post, sol>>
    BY <1>3, <2>2, TypeFacts DEF TypeInv, TypeOK, OutputTypeOK
  <2> QED
    BY <1>2, <2>1, <2>2
<1>5. ClockTypeOK' /\ FlagTypeOK'
  BY SameClock DEF TypeInv, TypeOK, FinalSave, FlagTypeOK
<1>6. SubStepTypeOK' /\ LoopInv'
  BY DEF TypeInv, TypeOK, LoopInv, FinalSave, SubStepTypeOK, subStepVars, clockVars,
         InLoop, InSubSteps, MaxSubStep
<1> QED
  BY <1>4, <1>5, <1>6 DEF TypeInv, TypeOK, FinalSave

LEMMA StutterType == TypeInv /\ UNCHANGED vars => TypeInv'
  BY DEF TypeInv, TypeOK, LoopInv, ClockTypeOK, SubStepTypeOK, FlagTypeOK, OutputTypeOK,
         InLoop, InSubSteps, MaxSubStep, vars, clockVars, subStepVars, saveVars

LEMMA TypeStep == TypeInv /\ [Next]_vars => TypeInv'
  BY BeforeSimulationType, BeginTimestepType, NextIntervalType, FixedStepType,
     AdaptiveFullType, AdaptiveHalvesType, AdaptiveAcceptType, AdaptiveRejectType,
     DivergenceTryType, DivergenceAcceptType, DivergenceRejectType, DivergenceFatalType,
     EndSubStepsType, SaveStepType, NextTimestepType, ExitType, AfterSimulationType,
     FinalSaveType, StutterType
     DEF Next, SubStep, Terminated

\* The types and the bounds of the sub-steps are an invariant of the loop.
THEOREM TypeInvariant == Spec => []TypeInv
  BY InitType, TypeStep, PTL DEF Spec

\* Every variable has its type in every state: every size of a step and of a
\* sub-step is one that can be halved, whatever the case and its control.
THEOREM TypeCorrect == Spec => []TypeOK
<1>1. TypeInv => TypeOK
  BY DEF TypeInv
<1> QED
  BY TypeInvariant, <1>1, PTL

\* No sub-step goes past the end of its timestep or is larger than allowed,
\* however sub-steps were enlarged, cut, refused and carried over to the next
\* timestep, whose size may be another one.
THEOREM SubStepBounds == Spec => []SubStepsFit
<1>1. TypeInv => SubStepsFit
  BY DEF TypeInv, LoopInv, SubStepsFit
<1> QED
  BY TypeInvariant, <1>1, PTL

-----------------------------------------------------------------------------
(* The solution and the clock. *)

\* What an execution of SolveEquations does to a solver that integrates in time:
\* one step of the given size when it is among the solvers executed, and
\* nothing to its values otherwise.
LEMMA SolveIntegrates ==
    ASSUME NEW u \in [Solver -> Field], NEW x \in Solver, Integrates(x),
           NEW d \in Int, NEW t \in Int, NEW st \in Int, NEW slots, NEW first, NEW bad,
           BeforeAndAt \subseteq slots
    PROVE  /\ SolveEquations(u, d, t, st, slots, first, bad)[x].val = u[x].val + d
           /\ SolveEquations(u, d, t, st, slots, first, bad)[x].prev[1] = u[x].val
<1> DEFINE h == InitializeTimestep(u[x], Order[x])
<1>1. /\ Transient /\ Slot[x] \in slots /\ Order[x] > 0 /\ Order[x] \in Nat
      /\ ExecInterval[x] = 1 /\ x \notin SkipFirst
  BY SolverAssumption DEF Integrates
<1>2. h \in Field /\ h.val = u[x].val /\ h.prev[1] = u[x].val
  BY <1>1, InitializeTimestepType
<1>3. Executes(x, st)
  BY <1>1 DEF Executes
<1>4. SolveEquations(u, d, t, st, slots, first, bad)[x]
        = Activate(h, x, d, t, st, Transient, x \in bad)
  BY <1>1 DEF SolveEquations
<1> HIDE DEF h
<1>5. Activate(h, x, d, t, st, Transient, x \in bad)
        = [h EXCEPT !.val = h.prev[1] + d, !.diverged = x \in bad]
  BY <1>1, <1>3 DEF Activate
<1> QED
  BY <1>2, <1>4, <1>5 DEF Field

LEMMA SolveOthers ==
    ASSUME NEW u \in [Solver -> Field], NEW x \in Solver, Integrates(x),
           NEW d, NEW t, NEW st, NEW bad, NEW first
    PROVE  SolveEquations(u, d, t, st, After, first, bad)[x].val = u[x].val
<1> DEFINE h == InitializeTimestep(u[x], Order[x])
<1>1. Transient
  BY DEF Integrates
<1>2. Order[x] \in Nat
  BY SolverAssumption
<1>3. Slot[x] \notin After
  BY DEF Integrates, BeforeAndAt, After
<1>4. h.val = u[x].val
  BY <1>2, InitializeTimestepType
<1>5. SolveEquations(u, d, t, st, After, first, bad)[x] = h
  BY <1>1, <1>3 DEF SolveEquations
<1> QED
  BY <1>4, <1>5

\* The solvers called around the steps are not those that integrate in time.
LEMMA SlotOthers ==
    ASSUME NEW u \in [Solver -> Field], NEW x \in Solver, Slot[x] \in BeforeAndAt,
           NEW slot, slot \notin BeforeAndAt, NEW d, NEW t, NEW st, NEW transient
    PROVE  ActivateSlot(u, slot, d, t, st, transient)[x] = u[x]
<1>1. Slot[x] # slot
  OBVIOUS
<1> QED
  BY <1>1 DEF ActivateSlot

LEMMA SaveOthers ==
    ASSUME TypeInv, NEW x \in Solver, Integrates(x), NEW current, Save(current)
    PROVE  sol'[x] = sol[x]
<1> DEFINE before == ActivateSlot(sol, "before saving", dt, time, step, Transient)
           after  == ActivateSlot(before, "after saving", dt, time, step, Transient)
<1>1. Slot[x] # "before saving" /\ Slot[x] # "after saving"
  BY DEF Integrates, BeforeAndAt
<1>2. before[x] = sol[x]
  BY <1>1 DEF ActivateSlot
<1>3. after[x] = before[x]
  <2> HIDE DEF before
  <2> QED
    BY <1>1 DEF ActivateSlot
<1>4. sol' = after
  BY DEF Save
<1> HIDE DEF before, after
<1> QED
  BY <1>2, <1>3, <1>4

\* Which control the loop is under, and the clock under divergence control: it
\* is at the end of the sub-step that was tried, also when the timestep is done.
ClockInv ==
    /\ pc \in {"halves"} => Control = "adaptive"
    /\ pc \in {"substep", "judge"} => Control \in {"adaptive", "divergence"}
    /\ pc = "fixed" /\ Transient => Control = "fixed"
    /\ Control = "divergence" /\ pc = "judge" => time = start + cumTime + ddt
    /\ Control = "divergence" /\ pc = "substep" /\ cumTime >= dt => time = start + cumTime

\* The level of a time integrating solver at every point of the loop: it is that
\* of the accepted solution, except between the two trials of a sub-step, where
\* what is kept is, and before the judgement, where it is one sub-step ahead.
LevelInv ==
    \A x \in Solver : Integrates(x) =>
        /\ pc \notin {"halves", "judge"} => sol[x].val = Reached
        /\ pc = "halves" => kept[x].val = start + cumTime
        /\ pc = "judge" => sol[x].val = start + cumTime + ddt
        /\ pc = "judge" /\ Control = "adaptive" => kept[x].val = start + cumTime
        /\ pc = "judge" /\ Control = "divergence" => sol[x].prev[1] = start + cumTime

Exact == ~ Rough /\ ~ StartZero

SolutionInv == TypeInv /\ (Exact => ClockInv /\ LevelInv)

\* Where no step is under way.
Quiet == {"start", "step", "save", "check", "after", "final", "done", "fatal"}

\* Around the steps, the level of the solution stays as long as clock and values do.
LEMMA QuietSolution ==
    ASSUME SolutionInv, Exact, pc \in Quiet, pc' \in Quiet, time' = time,
           \A x \in Solver : Integrates(x) => sol'[x].val = sol[x].val
    PROVE  ClockInv' /\ LevelInv'
<1>1. ClockInv'
  BY DEF ClockInv, Quiet
<1>2. \A x \in Solver : Integrates(x) => sol[x].val = time
  BY DEF SolutionInv, LevelInv, Quiet, Reached, InSubSteps
<1>3. Reached' = time
  BY DEF Reached, InSubSteps, Quiet
<1> QED
  BY <1>1, <1>2, <1>3 DEF LevelInv, Quiet, Integrates

LEMMA InitialSolution == Init => SolutionInv
<1> SUFFICES ASSUME Init PROVE SolutionInv
  OBVIOUS
<1>1. ClockInv
  BY DEF Init, ClockInv
<1>2. Reached = 0
  BY DEF Init, Reached, InSubSteps
<1>3. \A x \in Solver : sol[x].val = 0
  BY DEF Init, InitialField
<1>4. LevelInv
  BY <1>2, <1>3 DEF Init, LevelInv
<1> QED
  BY <1>1, <1>4, InitType DEF SolutionInv

LEMMA QuietActions ==
    ASSUME SolutionInv, Exact,
           BeforeSimulation \/ NextInterval \/ SaveStep \/ NextTimestep
             \/ SteadyExit \/ EarlyExit \/ AfterSimulation \/ FinalSave
    PROVE  ClockInv' /\ LevelInv'
<1>1. pc \in Quiet /\ pc' \in Quiet
  BY DEF BeforeSimulation, NextInterval, SaveStep, NextTimestep, SteadyExit, EarlyExit,
         AfterSimulation, FinalSave, Quiet
<1>2. time' = time
  BY DEF BeforeSimulation, NextInterval, SaveStep, NextTimestep, SteadyExit, EarlyExit,
         AfterSimulation, FinalSave, clockVars
<1>3. ASSUME NEW x \in Solver, Integrates(x) PROVE sol'[x].val = sol[x].val
  <2>1. Slot[x] \in BeforeAndAt
    BY <1>3 DEF Integrates
  <2>2. Slot[x] # "before simulation" /\ Slot[x] # "after simulation"
    BY <2>1 DEF BeforeAndAt
  <2>3. CASE BeforeSimulation
    BY <2>2, <2>3 DEF BeforeSimulation, ActivateSlot
  <2>4. CASE AfterSimulation
    BY <2>2, <2>4 DEF AfterSimulation, ActivateSlot
  <2>5. ASSUME NEW current, Save(current) PROVE sol'[x] = sol[x]
    BY <1>3, <2>5, SaveOthers DEF SolutionInv
  <2>6. CASE SaveStep
    BY <2>5, <2>6 DEF SaveStep
  <2>7. CASE FinalSave
    BY <2>5, <2>7 DEF FinalSave
  <2>8. CASE NextInterval \/ NextTimestep \/ SteadyExit \/ EarlyExit
    BY <2>8 DEF NextInterval, NextTimestep, SteadyExit, EarlyExit
  <2> QED
    BY <2>3, <2>4, <2>6, <2>7, <2>8
<1> QED
  BY <1>1, <1>2, <1>3, QuietSolution

LEMMA BeginTimestepSolution ==
    ASSUME SolutionInv, Exact, BeginTimestep PROVE ClockInv' /\ LevelInv'
<1> DEFINE inSubSteps == (Transient /\ Control = "adaptive") \/ Control = "divergence"
<1>0. PICK d \in ChosenSizes :
        LET now == IF cum = 0 /\ StartZero THEN time ELSE time + d
        IN  /\ dt' = d /\ time' = now
            /\ IF inSubSteps
               THEN start' = now - d /\ cumTime' = 0 /\ pc' = "substep"
               ELSE pc' = "fixed"
  BY DEF BeginTimestep
<1>1. /\ dt' = d /\ time' = time + d
      /\ \/ pc' = "substep" /\ start' = (time + d) - d /\ cumTime' = 0 /\ inSubSteps
         \/ pc' = "fixed" /\ ~ inSubSteps
  <2> HIDE DEF inSubSteps
  <2>1. time' = time + d /\ dt' = d
    BY <1>0 DEF Exact
  <2>2. CASE inSubSteps
    <3>1. pc' = "substep" /\ start' = time' - d /\ cumTime' = 0
      BY <1>0, <2>2
    <3> QED
      BY <2>1, <2>2, <3>1
  <2>3. CASE ~ inSubSteps
    BY <1>0, <2>1, <2>3
  <2> QED
    BY <2>1, <2>2, <2>3
<1>2. time \in Int /\ d \in Int /\ d > 0
  <2>1. TypeInv'
    BY BeginTimestepType DEF SolutionInv
  <2>2. dt' \in Nat /\ dt' > 0
    BY <2>1 DEF TypeInv, TypeOK, ClockTypeOK, IsSize
  <2>3. time \in Int
    BY TypeFacts DEF SolutionInv
  <2> QED
    BY <1>1, <2>2, <2>3
<1>3. \A x \in Solver : Integrates(x) => sol[x].val = time
  BY DEF SolutionInv, LevelInv, BeginTimestep, Reached, InSubSteps
<1>4. Reached' = time
  <2>1. CASE pc' = "substep"
    BY <1>1, <1>2, <2>1 DEF Reached, InSubSteps
  <2>2. CASE pc' = "fixed"
    BY <1>1, <1>2, <2>2 DEF Reached, InSubSteps, Exact
  <2> QED
    BY <1>1, <2>1, <2>2
<1>5. pc' \notin {"halves", "judge"} /\ sol' = sol
  BY <1>1 DEF BeginTimestep
<1>6. LevelInv'
  BY <1>3, <1>4, <1>5 DEF LevelInv, Integrates
<1>7. ClockInv'
  <2>1. CASE pc' = "substep"
    <3>1. Control \in {"adaptive", "divergence"} /\ cumTime' = 0 /\ ~ (0 >= dt')
      BY <1>1, <1>2, <2>1
    <3> QED
      BY <2>1, <3>1 DEF ClockInv
  <2>2. CASE pc' = "fixed"
    <3>1. Transient => Control = "fixed"
      BY <1>1, <2>2, LoopAssumption
    <3> QED
      BY <2>2, <3>1 DEF ClockInv, Transient
  <2> QED
    BY <1>1, <2>1, <2>2
<1> QED
  BY <1>6, <1>7

LEMMA FixedStepSolution ==
    ASSUME SolutionInv, Exact, FixedStep PROVE ClockInv' /\ LevelInv'
<1>1. /\ pc = "fixed" /\ pc' = "save" /\ time' = time
      /\ sol' = SolveEquations(sol, dt, time, step, BeforeAndAt \cup After, realStep = 1, {})
  BY DEF FixedStep
<1>2. dt \in Int /\ time \in Int /\ step \in Int /\ sol \in [Solver -> Field]
  BY TypeFacts DEF SolutionInv
<1>3. ASSUME NEW x \in Solver, Integrates(x) PROVE sol'[x].val = time
  <2>1. sol[x].val = time - dt
    BY <1>1, <1>3 DEF SolutionInv, LevelInv, Reached, InSubSteps, Exact
  <2>2. sol'[x].val = sol[x].val + dt
    BY <1>1, <1>2, <1>3, SolveIntegrates
  <2> QED
    BY <1>2, <2>1, <2>2
<1>4. Reached' = time
  BY <1>1 DEF Reached, InSubSteps
<1> QED
  BY <1>1, <1>3, <1>4 DEF ClockInv, LevelInv, Integrates

LEMMA AdaptiveFullSolution ==
    ASSUME SolutionInv, Exact, AdaptiveFull PROVE ClockInv' /\ LevelInv'
<1>1. /\ pc = "substep" /\ pc' = "halves" /\ Control = "adaptive"
      /\ kept' = sol /\ start' = start /\ cumTime' = cumTime
  BY DEF AdaptiveFull
<1>2. \A x \in Solver : Integrates(x) => sol[x].val = start + cumTime
  BY <1>1 DEF SolutionInv, LevelInv, Reached, InSubSteps
<1>3. ClockInv'
  BY <1>1 DEF ClockInv
<1>4. LevelInv'
  BY <1>1, <1>2 DEF LevelInv, Integrates
<1> QED
  BY <1>3, <1>4

LEMMA AdaptiveHalvesSolution ==
    ASSUME SolutionInv, Exact, AdaptiveHalves PROVE ClockInv' /\ LevelInv'
<1> DEFINE h      == Half(ddt)
           now    == start + cumTime
           first  == SolveEquations(Restored, h, now + h, h, BeforeAndAt, realStep = 1, {})
           second == SolveEquations(first, h, now + ddt, h, BeforeAndAt, realStep = 1, {})
<1>1. /\ pc = "halves" /\ pc' = "judge" /\ kept' = kept
      /\ start' = start /\ cumTime' = cumTime /\ ddt' = ddt
      /\ sol' = second
  BY DEF AdaptiveHalves, subStepVars
<1>2. /\ h \in Int /\ now \in Int /\ ddt \in Int
      /\ now + h \in Int /\ now + ddt \in Int /\ h + h = ddt
  BY <1>1, TypeFacts, HalfSize DEF SolutionInv, InSubSteps
<1>3. Control = "adaptive"
  BY <1>1 DEF SolutionInv, ClockInv
<1>4. Restored \in [Solver -> Field]
  BY RestoredType DEF SolutionInv
<1> HIDE DEF h, now
<1>5. first \in [Solver -> Field]
  BY <1>2, <1>4, SolveEquationsType
<1>6. ASSUME NEW x \in Solver, Integrates(x)
      PROVE  kept[x].val = now /\ sol'[x].val = now + ddt
  <2>1. kept[x].val = now
    BY <1>1, <1>6 DEF SolutionInv, LevelInv, now
  <2>2. Restored[x].val = kept[x].val
    <3>1. sol[x] \in Field /\ kept[x] \in Field
      BY TypeFacts DEF SolutionInv
    <3> QED
      BY <3>1 DEF Restored, Field
  <2>3. first[x].val = Restored[x].val + h
    BY <1>2, <1>4, <1>6, SolveIntegrates
  <2> HIDE DEF first
  <2>4. second[x].val = first[x].val + h
    BY <1>2, <1>5, <1>6, SolveIntegrates
  <2> HIDE DEF second
  <2> QED
    BY <1>1, <1>2, <2>1, <2>2, <2>3, <2>4
<1>7. ClockInv'
  BY <1>1, <1>3 DEF ClockInv
<1>8. LevelInv'
  BY <1>1, <1>3, <1>6 DEF LevelInv, Integrates, now
<1> QED
  BY <1>7, <1>8

LEMMA AdaptiveAcceptSolution ==
    ASSUME SolutionInv, Exact, AdaptiveAccept PROVE ClockInv' /\ LevelInv'
<1>1. /\ pc = "judge" /\ pc' = "substep" /\ Control = "adaptive"
      /\ start' = start /\ cumTime' = cumTime + ddt
      /\ sol' = SolveEquations(sol, Half(ddt'), time, step, After, realStep' = 1, {})
  BY DEF AdaptiveAccept
<1>2. /\ sol \in [Solver -> Field]
      /\ start \in Int /\ cumTime \in Int /\ ddt \in Int
  BY <1>1, TypeFacts DEF SolutionInv, InSubSteps
<1>3. Reached' = (start + cumTime) + ddt
  BY <1>1, <1>2 DEF Reached, InSubSteps
<1>4. ASSUME NEW x \in Solver, Integrates(x) PROVE sol'[x].val = Reached'
  <2>1. sol'[x].val = sol[x].val
    BY <1>1, <1>2, <1>4, SolveOthers
  <2>2. sol[x].val = start + cumTime + ddt
    BY <1>1, <1>4 DEF SolutionInv, LevelInv
  <2> QED
    BY <1>2, <1>3, <2>1, <2>2
<1> QED
  BY <1>1, <1>4 DEF ClockInv, LevelInv, Integrates

LEMMA AdaptiveRejectSolution ==
    ASSUME SolutionInv, Exact, AdaptiveReject PROVE ClockInv' /\ LevelInv'
<1>1. /\ pc = "judge" /\ pc' = "substep" /\ Control = "adaptive"
      /\ start' = start /\ cumTime' = cumTime /\ sol' = Restored
  BY DEF AdaptiveReject
<1>2. Reached' = start + cumTime
  BY <1>1 DEF Reached, InSubSteps
<1>3. ASSUME NEW x \in Solver, Integrates(x) PROVE sol'[x].val = Reached'
  <2>1. kept[x].val = start + cumTime
    BY <1>1, <1>3 DEF SolutionInv, LevelInv
  <2>2. sol[x] \in Field /\ kept[x] \in Field
    BY TypeFacts DEF SolutionInv
  <2>3. Restored[x].val = kept[x].val
    BY <2>2 DEF Restored, Field
  <2> QED
    BY <1>1, <1>2, <2>1, <2>3
<1> QED
  BY <1>1, <1>3 DEF ClockInv, LevelInv, Integrates

LEMMA DivergenceTrySolution ==
    ASSUME SolutionInv, Exact, DivergenceTry PROVE ClockInv' /\ LevelInv'
<1> DEFINE d == Clip(ddt, dt - cumTime)
<1>1. /\ pc = "substep" /\ pc' = "judge" /\ Control = "divergence" /\ ddt' = d
      /\ start' = start /\ cumTime' = cumTime /\ time' = start + cumTime + d
  BY DEF DivergenceTry
<1>2. PICK bad \in SUBSET {x \in Solver : Slot[x] \in BeforeAndAt} :
        sol' = SolveEquations(sol, d, start + cumTime + d, step, BeforeAndAt, realStep = 1, bad)
  BY DEF DivergenceTry
<1>3. d \in Int
  BY TriedSize DEF SolutionInv, DivergenceTry
<1> HIDE DEF d
<1>4. /\ sol \in [Solver -> Field] /\ step \in Int
      /\ start + cumTime \in Int /\ start + cumTime + d \in Int
  BY <1>3, TypeFacts DEF SolutionInv
<1>5. ASSUME NEW x \in Solver, Integrates(x)
      PROVE  sol'[x].val = start + cumTime + d /\ sol'[x].prev[1] = start + cumTime
  <2>1. sol[x].val = start + cumTime
    BY <1>1, <1>5 DEF SolutionInv, LevelInv, Reached, InSubSteps
  <2>2. sol'[x].val = sol[x].val + d /\ sol'[x].prev[1] = sol[x].val
    BY <1>2, <1>3, <1>4, <1>5, SolveIntegrates
  <2> QED
    BY <2>1, <2>2
<1>6. ClockInv'
  BY <1>1 DEF ClockInv
<1>7. LevelInv'
  BY <1>1, <1>5 DEF LevelInv, Integrates
<1> QED
  BY <1>6, <1>7

LEMMA DivergenceAcceptSolution ==
    ASSUME SolutionInv, Exact, DivergenceAccept PROVE ClockInv' /\ LevelInv'
<1>1. /\ pc = "judge" /\ pc' = "substep" /\ Control = "divergence"
      /\ start' = start /\ cumTime' = cumTime + ddt /\ time' = time
  BY DEF DivergenceAccept
<1>2. PICK bad \in SUBSET {x \in Solver : Slot[x] \in After} :
        sol' = SolveEquations(sol, ddt, time, step, After, realStep = 1, bad)
  BY DEF DivergenceAccept
<1>3. /\ sol \in [Solver -> Field]
      /\ start \in Int /\ cumTime \in Int /\ ddt \in Int
  BY <1>1, TypeFacts DEF SolutionInv, InSubSteps
<1>4. Reached' = (start + cumTime) + ddt /\ time' = Reached'
  BY <1>1, <1>3 DEF Reached, InSubSteps, SolutionInv, ClockInv
<1>5. ASSUME NEW x \in Solver, Integrates(x) PROVE sol'[x].val = Reached'
  <2>1. sol'[x].val = sol[x].val
    BY <1>2, <1>3, <1>5, SolveOthers
  <2>2. sol[x].val = start + cumTime + ddt
    BY <1>1, <1>5 DEF SolutionInv, LevelInv
  <2> QED
    BY <1>3, <1>4, <2>1, <2>2
<1>6. time' = start' + cumTime'
  BY <1>1, <1>4 DEF Reached, InSubSteps
<1> QED
  BY <1>1, <1>5, <1>6 DEF ClockInv, LevelInv, Integrates

LEMMA DivergenceRejectSolution ==
    ASSUME SolutionInv, Exact, DivergenceReject PROVE ClockInv' /\ LevelInv'
<1>1. /\ pc = "judge" /\ pc' = "substep" /\ Control = "divergence"
      /\ start' = start /\ cumTime' = cumTime /\ dt' = dt /\ sol' = Reverted
  BY DEF DivergenceReject, clockVars
<1>2. Reached' = start + cumTime
  BY <1>1 DEF Reached, InSubSteps
<1>3. ASSUME NEW x \in Solver, Integrates(x) PROVE sol'[x].val = Reached'
  <2>1. sol[x].prev[1] = start + cumTime
    BY <1>1, <1>3 DEF SolutionInv, LevelInv
  <2>2. sol[x] \in Field /\ Transient /\ Order[x] > 0
    BY <1>3, TypeFacts DEF SolutionInv, Integrates
  <2>3. Reverted[x].val = sol[x].prev[1]
    BY <2>2 DEF Reverted, Field
  <2> QED
    BY <1>1, <1>2, <2>1, <2>3
<1>4. ~ (cumTime >= dt)
  <2>1. cumTime + ddt <= dt /\ ddt > 0 /\ ddt \in Int /\ dt \in Int /\ cumTime \in Int
    BY <1>1, TypeFacts DEF SolutionInv, TypeInv, LoopInv, Exact, InSubSteps
  <2> QED
    BY <2>1
<1> QED
  BY <1>1, <1>3, <1>4 DEF ClockInv, LevelInv, Integrates

LEMMA DivergenceFatalSolution ==
    ASSUME SolutionInv, Exact, DivergenceFatal PROVE ClockInv' /\ LevelInv'
<1>1. pc = "judge" /\ pc' = "fatal" /\ Control = "divergence" /\ time' = time /\ sol' = sol
  BY DEF DivergenceFatal, clockVars
<1>2. Reached' = time
  BY <1>1 DEF Reached, InSubSteps
<1>3. \A x \in Solver : Integrates(x) => sol[x].val = time
  BY <1>1 DEF SolutionInv, LevelInv, ClockInv
<1> QED
  BY <1>1, <1>2, <1>3 DEF ClockInv, LevelInv, Integrates

LEMMA EndSubStepsSolution ==
    ASSUME SolutionInv, Exact, EndSubSteps PROVE ClockInv' /\ LevelInv'
<1>1. pc = "substep" /\ pc' = "save" /\ cumTime >= dt /\ sol' = sol
  BY DEF EndSubSteps
<1>2. cumTime = dt
  <2>1. cumTime <= dt /\ cumTime \in Int /\ dt \in Int
    BY <1>1, TypeFacts DEF SolutionInv, TypeInv, LoopInv, Exact, InSubSteps
  <2> QED
    BY <1>1, <2>1
<1>3. time' = start + cumTime
  <2>1. CASE Control = "adaptive"
    BY <1>2, <2>1 DEF EndSubSteps
  <2>2. CASE Control = "divergence"
    BY <1>1, <2>2 DEF EndSubSteps, SolutionInv, ClockInv
  <2> QED
    BY <1>1, <2>1, <2>2 DEF SolutionInv, ClockInv
<1>4. Reached' = start + cumTime
  BY <1>1, <1>3 DEF Reached, InSubSteps
<1>5. \A x \in Solver : Integrates(x) => sol[x].val = start + cumTime
  BY <1>1 DEF SolutionInv, LevelInv, Reached, InSubSteps
<1> QED
  BY <1>1, <1>4, <1>5 DEF ClockInv, LevelInv, Integrates

LEMMA StutterSolution ==
    ASSUME SolutionInv, Exact, UNCHANGED vars PROVE ClockInv' /\ LevelInv'
<1>1. /\ UNCHANGED <<pc, time, dt, start, cumTime, ddt, cum, sol, kept>>
  BY DEF vars, clockVars, subStepVars
<1>2. Reached' = Reached
  BY <1>1 DEF Reached, InSubSteps
<1> QED
  BY <1>1, <1>2 DEF SolutionInv, ClockInv, LevelInv, Integrates

\* Clock, levels and types together are an invariant of the loop.
THEOREM SolutionInvariant == Spec => []SolutionInv
<1>1. SolutionInv /\ [Next]_vars => SolutionInv'
  <2> SUFFICES ASSUME SolutionInv, [Next]_vars PROVE SolutionInv'
    OBVIOUS
  <2>1. TypeInv'
    BY TypeStep DEF SolutionInv
  <2>2. ASSUME Exact PROVE ClockInv' /\ LevelInv'
    BY <2>2, QuietActions, BeginTimestepSolution, FixedStepSolution,
       AdaptiveFullSolution, AdaptiveHalvesSolution, AdaptiveAcceptSolution,
       AdaptiveRejectSolution, DivergenceTrySolution, DivergenceAcceptSolution,
       DivergenceRejectSolution, DivergenceFatalSolution, EndSubStepsSolution,
       StutterSolution
       DEF Next, SubStep, Terminated
  <2> QED
    BY <2>1, <2>2 DEF SolutionInv, Exact
<1> QED
  BY InitialSolution, <1>1, PTL DEF Spec

\* In every state between two trials, and whatever was tried and refused before,
\* the solution of each solver that integrates in time is the one at the instant
\* that the clock tells, for every case without 'Adaptive Rough Timestep' and
\* 'Timestep Start Zero'.
THEOREM SolutionFollowsClock == Spec => []SolutionAtClock
<1>1. SolutionInv => SolutionAtClock
  BY DEF SolutionInv, Exact, LevelInv, SolutionAtClock
<1> QED
  BY SolutionInvariant, <1>1, PTL

=============================================================================
