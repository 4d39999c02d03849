--------------------------- MODULE TimeMarchProofs ---------------------------
(***************************************************************************)
(* Proofs about what the time loop writes, for every case: the output is a *)
(* march in time, it ends with the last state, what is written is current, *)
(* and a refused trial leaves nothing behind.                              *)
(***************************************************************************)
EXTENDS TimeSteppingProofs

-----------------------------------------------------------------------------
(* Refused trials. *)

\* Under adaptive control, or without trials, whatever the two trials of a
\* sub-step have done to values and histories is undone when it is refused.
\* Divergence control is excluded: it leaves the histories shifted.
THEOREM RejectedTrialsLeaveNoTrace ==
    ASSUME Control # "divergence"
    PROVE  Spec => RejectRestores
<1> DEFINE Undone == (pc = "judge" /\ pc' = "substep" /\ cumTime' = cumTime)
                       => \A x \in Solver : sol'[x].val = kept[x].val /\ sol'[x].prev = kept[x].prev
<1>1. TypeInv /\ [Next]_vars => [Undone]_vars
  <2> SUFFICES ASSUME TypeInv, Next, pc = "judge", pc' = "substep", cumTime' = cumTime,
                      NEW x \in Solver
               PROVE  sol'[x].val = kept[x].val /\ sol'[x].prev = kept[x].prev
    BY DEF vars
  <2>1. sol[x] \in Field /\ kept[x] \in Field /\ ddt \in Nat /\ ddt > 0 /\ cumTime \in Nat
    BY TypeFacts DEF InSubSteps
  <2>2. ~ AdaptiveAccept
    BY <2>1 DEF AdaptiveAccept
  <2>3. AdaptiveReject
    BY <2>2 DEF Next, SubStep, BeforeSimulation, BeginTimestep, NextInterval, FixedStep,
                AdaptiveFull, AdaptiveHalves, DivergenceTry, DivergenceAccept, DivergenceReject,
                DivergenceFatal, EndSubSteps, SaveStep, NextTimestep, SteadyExit, EarlyExit,
                AfterSimulation, FinalSave, Terminated
  <2>4. sol'[x] = [sol[x] EXCEPT !.val = kept[x].val, !.prev = kept[x].prev]
    BY <2>3 DEF AdaptiveReject, Restored
  <2> QED
    BY <2>1, <2>4 DEF Field
<1> QED
  BY TypeInvariant, <1>1, PTL DEF Spec, RejectRestores

-----------------------------------------------------------------------------
(* The clock of the trials.  It is the one of SolutionInv, but also for runs *)
(* that are rough or start at zero.                                          *)

TrialClock ==
    /\ InSubSteps => Control \in {"adaptive", "divergence"}
    /\ pc = "halves" => Control = "adaptive"
    /\ pc \in {"halves", "judge"} => cumTime < dt
    /\ Control = "divergence" /\ pc = "judge" => time = start + cumTime + ddt
    /\ Control = "divergence" /\ pc = "substep" /\ cumTime >= dt => time = start + cumTime

LEMMA InitialTrialClock == Init => TrialClock
  BY DEF Init, TrialClock, InSubSteps

\* What beginning a timestep does to the clock and to the place in the loop.
LEMMA BegunStep ==
    ASSUME TypeInv, BeginTimestep
    PROVE  /\ dt' \in Int /\ dt' > 0 /\ size' = dt' /\ cum' = cum + 1
           /\ prevSizes' = ShiftedSizes
           /\ time' = IF cum = 0 /\ StartZero THEN time ELSE time + dt'
           /\ \/ /\ pc' = "substep" /\ start' = time' - dt' /\ cumTime' = 0
                 /\ Control \in {"adaptive", "divergence"}
              \/ pc' = "fixed" /\ ~ (Transient /\ Control = "adaptive") /\ Control # "divergence"
<1> DEFINE inSubSteps == (Transient /\ Control = "adaptive") \/ Control = "divergence"
<1>1. PICK d \in ChosenSizes :
        LET now == IF cum = 0 /\ StartZero THEN time ELSE time + d
        IN  /\ cum' = cum + 1 /\ step' = cum + 1
            /\ dt' = d /\ time' = now
            /\ prevSizes' = ShiftedSizes /\ size' = d
            /\ IF inSubSteps
               THEN /\ start' = now - d /\ cumTime' = 0 /\ ddt' = FirstSubStep(d)
                    /\ smallest' = IF Control = "adaptive" THEN 0 ELSE smallest
                    /\ pc' = "substep"
               ELSE UNCHANGED <<start, cumTime, ddt, smallest>> /\ pc' = "fixed"
  BY DEF BeginTimestep
<1>2. dt' \in Int /\ dt' > 0
  BY BeginTimestepType DEF TypeInv, TypeOK, ClockTypeOK, IsSize
<1>3. /\ size' = dt' /\ cum' = cum + 1 /\ prevSizes' = ShiftedSizes
      /\ time' = IF cum = 0 /\ StartZero THEN time ELSE time + dt'
  BY <1>1
<1>4. \/ pc' = "substep" /\ start' = time' - dt' /\ cumTime' = 0 /\ inSubSteps
      \/ pc' = "fixed" /\ ~ inSubSteps
  <2> HIDE DEF inSubSteps
  <2>1. CASE inSubSteps
    BY <1>1, <2>1
  <2>2. CASE ~ inSubSteps
    BY <1>1, <2>2
  <2> QED
    BY <2>1, <2>2
<1> QED
  BY <1>2, <1>3, <1>4

LEMMA TrialClockStep ==
    ASSUME TypeInv, TrialClock, [Next]_vars PROVE TrialClock'
<1>0. time \in Int /\ start \in Int /\ cumTime \in Int /\ dt \in Int
  BY TypeFacts
<1>1. CASE pc' \notin {"substep", "halves", "judge"}
  BY <1>1 DEF TrialClock, InSubSteps
<1>2. CASE BeginTimestep /\ pc' = "substep"
  <2>1. Control \in {"adaptive", "divergence"} /\ cumTime' = 0 /\ dt' > 0 /\ dt' \in Int
    BY <1>2, BegunStep
  <2> QED
    BY <1>2, <2>1 DEF TrialClock, InSubSteps
<1>3. CASE AdaptiveFull
  BY <1>3 DEF AdaptiveFull, TrialClock, InSubSteps
<1>4. CASE AdaptiveHalves
  BY <1>4 DEF AdaptiveHalves, TrialClock, InSubSteps, subStepVars
<1>5. CASE AdaptiveAccept
  BY <1>5 DEF AdaptiveAccept, TrialClock, InSubSteps
<1>6. CASE AdaptiveReject
  BY <1>6 DEF AdaptiveReject, TrialClock, InSubSteps
<1>7. CASE DivergenceTry
  BY <1>7 DEF DivergenceTry, TrialClock, InSubSteps
<1>8. CASE DivergenceAccept
  <2>1. ddt \in Int
    BY <1>8, TypeFacts DEF DivergenceAccept, InSubSteps
  <2> QED
    BY <1>0, <1>8, <2>1 DEF DivergenceAccept, TrialClock, InSubSteps
<1>9. CASE DivergenceReject
  BY <1>0, <1>9 DEF DivergenceReject, TrialClock, InSubSteps, clockVars
<1>10. CASE UNCHANGED vars
  BY <1>10 DEF vars, clockVars, subStepVars, TrialClock, InSubSteps
<1>11. ~ (BeginTimestep /\ pc' = "substep") /\ pc' \in {"substep", "halves", "judge"} /\ [Next]_vars
         => \/ AdaptiveFull \/ AdaptiveHalves \/ AdaptiveAccept \/ AdaptiveReject
            \/ DivergenceTry \/ DivergenceAccept \/ DivergenceReject \/ UNCHANGED vars
  <2>1. NextInterval => pc' \in {"step", "after"}
    BY DEF NextInterval
  <2>2. BeginTimestep => pc' \in {"substep", "fixed"}
    BY DEF BeginTimestep
  <2>3. /\ BeforeSimulation => pc' = "step"
        /\ FixedStep => pc' = "save"
        /\ DivergenceFatal => pc' = "fatal"
        /\ EndSubSteps => pc' = "save"
        /\ SaveStep => pc' = "check"
        /\ NextTimestep => pc' = "step"
        /\ SteadyExit => pc' = "after"
        /\ EarlyExit => pc' = "after"
        /\ AfterSimulation => pc' = "final"
        /\ FinalSave => pc' = "done"
    BY DEF BeforeSimulation, FixedStep, DivergenceFatal, EndSubSteps, SaveStep, NextTimestep,
           SteadyExit, EarlyExit, AfterSimulation, FinalSave
  <2> QED
    BY <2>1, <2>2, <2>3 DEF Next, SubStep, Terminated
<1> QED
  BY <1>1, <1>2, <1>3, <1>4, <1>5, <1>6, <1>7, <1>8, <1>9, <1>10, <1>11

-----------------------------------------------------------------------------
(* The instants in the output. *)

Ascends(r)    == \A i, j \in 1 .. Len(r) : i < j => r[i].time < r[j].time
UpTo(r, t)    == \A i \in 1 .. Len(r) : r[i].time <= t
Earlier(r, t) == \A i \in 1 .. Len(r) : r[i].time < t

LEMMA NothingSaved == ASSUME NEW t PROVE Ascends(<<>>) /\ UpTo(<<>>, t) /\ Earlier(<<>>, t)
  BY DEF Ascends, UpTo, Earlier

\* The instants of saved records are numbers.
LEMMA SavedInstants ==
    ASSUME NEW r \in Seq(SaveRecord) PROVE \A i \in 1 .. Len(r) : r[i].time \in Int
<1> SUFFICES ASSUME NEW i \in 1 .. Len(r) PROVE r[i].time \in Int
  OBVIOUS
<1> DEFINE e == r[i]
<1>1. e \in SaveRecord
  OBVIOUS
<1> HIDE DEF e
<1>2. e.time \in Int
  BY <1>1 DEF SaveRecord
<1> QED
  BY <1>2 DEF e

LEMMA LaterThanSaved ==
    ASSUME NEW r \in Seq(SaveRecord), NEW t \in Int, NEW u \in Int
    PROVE  /\ Earlier(r, t) => UpTo(r, t)
           /\ UpTo(r, t) /\ t < u => Earlier(r, u)
<1>1. \A i \in 1 .. Len(r) : r[i].time \in Int
  BY SavedInstants
<1> QED
  BY <1>1 DEF Earlier, UpTo

\* A save of a later instant keeps them ascending and becomes the last.
LEMMA SavedNext ==
    ASSUME NEW r \in Seq(SaveRecord), NEW e \in SaveRecord, NEW t, e.time = t,
           Ascends(r), Earlier(r, t)
    PROVE  Ascends(Append(r, e)) /\ UpTo(Append(r, e), t)
<1> DEFINE n == Len(r)
           a == Append(r, e)
<1>1. n \in Nat /\ Len(a) = n + 1
  OBVIOUS
<1>2. \A i \in 1 .. n : a[i] = r[i]
  OBVIOUS
<1>3. a[n + 1] = e
  OBVIOUS
<1>4. t \in Int
  BY DEF SaveRecord
<1>5. \A i \in 1 .. n : r[i].time < t
  BY DEF Earlier
<1>6. \A i \in 1 .. n : r[i].time \in Int
  BY SavedInstants
<1>7. \A i, j \in 1 .. n : i < j => r[i].time < r[j].time
  BY DEF Ascends
<1> HIDE DEF n, a
<1>8. \A i \in 1 .. Len(a) : (i \in 1 .. n /\ a[i].time = r[i].time) \/ (i = n + 1 /\ a[i].time = t)
  <2> SUFFICES ASSUME NEW i \in 1 .. Len(a)
               PROVE  (i \in 1 .. n /\ a[i].time = r[i].time) \/ (i = n + 1 /\ a[i].time = t)
    OBVIOUS
  <2>1. i \in 1 .. n \/ i = n + 1
    BY <1>1
  <2> QED
    BY <1>2, <1>3, <2>1
<1>9. UpTo(a, t)
  BY <1>4, <1>5, <1>6, <1>8 DEF UpTo
<1>10. Ascends(a)
  <2> SUFFICES ASSUME NEW i \in 1 .. Len(a), NEW j \in 1 .. Len(a), i < j
               PROVE  a[i].time < a[j].time
    BY DEF Ascends
  <2>1. i \in 1 .. n /\ a[i].time = r[i].time
    BY <1>1, <1>8
  <2>2. CASE j \in 1 .. n /\ a[j].time = r[j].time
    BY <1>7, <2>1, <2>2
  <2>3. CASE j = n + 1 /\ a[j].time = t
    BY <1>5, <2>1, <2>3
  <2> QED
    BY <1>8, <2>2, <2>3
<1> QED
  BY <1>9, <1>10 DEF a

\* Where no step is under way and the simulation has not ended.
Between == {"start", "step", "check", "after", "final"}

\* No instant is later than the clock, and only one that was saved at this
\* clock equals it; while a step is made, all are before its end.
SaveTimes ==
    /\ Ascends(result) /\ Ascends(post)
    /\ pc \in Between =>
         /\ UpTo(result, time) /\ UpTo(post, time)
         /\ ~ lastSaved => Earlier(result, time) /\ Earlier(post, time)
    /\ pc \in {"fixed", "save"} => Earlier(result, time) /\ Earlier(post, time)
    /\ InSubSteps => UpTo(result, start) /\ UpTo(post, start)

\* Nothing is saved before the first step or, if only the end is to be saved,
\* before the end.
NoneSaved ==
    /\ InLoop => cum > 0
    /\ cum = 0 /\ pc # "done" => result = <<>> /\ post = <<>>
    /\ FinalOnly /\ pc # "done" => result = <<>>

MarchInv == TypeInv /\ TrialClock /\ SaveTimes /\ NoneSaved

LEMMA InitialMarch == Init => MarchInv
<1> SUFFICES ASSUME Init PROVE MarchInv
  OBVIOUS
<1>1. result = <<>> /\ post = <<>> /\ pc = "start" /\ cum = 0
  BY DEF Init
<1>2. SaveTimes /\ NoneSaved
  BY <1>1, NothingSaved DEF SaveTimes, NoneSaved, InSubSteps, InLoop
<1> QED
  BY <1>2, InitType, InitialTrialClock DEF MarchInv

LEMMA MarchFacts ==
    ASSUME MarchInv
    PROVE  /\ result \in Seq(SaveRecord) /\ post \in Seq(SaveRecord)
           /\ time \in Int /\ start \in Int /\ cumTime \in Int /\ dt \in Int /\ dt > 0
           /\ cum \in Int /\ cum >= 0 /\ FinalOnly \in BOOLEAN /\ lastSaved \in BOOLEAN
           /\ InSubSteps => ddt \in Int /\ ddt > 0
  BY TypeFacts, LoopAssumption
     DEF MarchInv, TypeInv, TypeOK, OutputTypeOK, ClockTypeOK, FlagTypeOK, IsSize

LEMMA BeginTimestepTimes ==
    ASSUME MarchInv, BeginTimestep PROVE SaveTimes' /\ NoneSaved'
<1>1. /\ pc = "step" /\ pc' \in {"substep", "fixed"}
      /\ result' = result /\ post' = post
  BY BegunStep DEF BeginTimestep, saveVars, MarchInv
<1>2. /\ cum' = cum + 1 /\ dt' \in Int /\ dt' > 0
      /\ time' = IF cum = 0 /\ StartZero THEN time ELSE time + dt'
      /\ pc' = "substep" => start' = time' - dt'
  BY BegunStep DEF MarchInv
<1>3. Ascends(result) /\ Ascends(post) /\ UpTo(result, time) /\ UpTo(post, time)
  BY <1>1 DEF MarchInv, SaveTimes, Between
<1>4. /\ pc' = "fixed" => Earlier(result, time') /\ Earlier(post, time')
      /\ pc' = "substep" => UpTo(result, start') /\ UpTo(post, start')
  <2>1. CASE cum = 0
    BY <1>1, <2>1, NothingSaved DEF MarchInv, NoneSaved
  <2>2. CASE cum # 0
    <3>1. time' \in Int /\ time < time' /\ (pc' = "substep" => start' = time)
      BY <1>2, <2>2, MarchFacts
    <3> QED
      BY <1>3, <3>1, MarchFacts, LaterThanSaved
  <2> QED
    BY <2>1, <2>2
<1>5. SaveTimes'
  BY <1>1, <1>3, <1>4 DEF SaveTimes, Between, InSubSteps
<1>6. NoneSaved'
  BY <1>1, <1>2, MarchFacts DEF MarchInv, NoneSaved
<1> QED
  BY <1>5, <1>6

\* The actions between two ends of steps that write nothing and do not change
\* what the instants in the output are compared with.
LEMMA UnwrittenTimes ==
    ASSUME MarchInv,
           BeforeSimulation \/ NextInterval \/ FixedStep \/ NextTimestep
             \/ SteadyExit \/ EarlyExit \/ AfterSimulation \/ UNCHANGED vars
    PROVE  SaveTimes' /\ NoneSaved'
<1>1. /\ result' = result /\ post' = post /\ lastSaved' = lastSaved /\ time' = time
      /\ cum' = cum /\ start' = start
  BY DEF BeforeSimulation, NextInterval, FixedStep, NextTimestep, SteadyExit, EarlyExit,
         AfterSimulation, vars, saveVars, clockVars, subStepVars
<1>2. \/ pc \in Between /\ pc' \in Between
      \/ pc = "fixed" /\ pc' = "save"
      \/ pc' = pc
  BY DEF BeforeSimulation, NextInterval, FixedStep, NextTimestep, SteadyExit, EarlyExit,
         AfterSimulation, vars, Between
<1>3. InLoop' => InLoop \/ pc = "fixed"
  BY DEF BeforeSimulation, NextInterval, FixedStep, NextTimestep, SteadyExit, EarlyExit,
         AfterSimulation, vars, InLoop
<1>4. SaveTimes'
  BY <1>1, <1>2 DEF MarchInv, SaveTimes, Between, InSubSteps
<1>5. NoneSaved'
  BY <1>1, <1>2, <1>3 DEF MarchInv, NoneSaved, InLoop, Between
<1> QED
  BY <1>4, <1>5

LEMMA SubStepTimes ==
    ASSUME MarchInv, SubStep PROVE SaveTimes' /\ NoneSaved'
<1>1. /\ result' = result /\ post' = post /\ lastSaved' = lastSaved
      /\ cum' = cum /\ start' = start
  BY DEF SubStep, AdaptiveFull, AdaptiveHalves, AdaptiveAccept, AdaptiveReject, DivergenceTry,
         DivergenceAccept, DivergenceReject, DivergenceFatal, EndSubSteps,
         saveVars, clockVars, subStepVars
<1>2. /\ InSubSteps
      /\ \/ pc' \in {"substep", "halves", "judge", "fatal"}
         \/ pc' = "save" /\ EndSubSteps
  BY DEF SubStep, AdaptiveFull, AdaptiveHalves, AdaptiveAccept, AdaptiveReject, DivergenceTry,
         DivergenceAccept, DivergenceReject, DivergenceFatal, EndSubSteps, InSubSteps
<1>3. /\ Ascends(result) /\ Ascends(post) /\ UpTo(result, start) /\ UpTo(post, start)
      /\ InLoop /\ pc # "done"
  BY <1>2 DEF MarchInv, SaveTimes, InSubSteps, InLoop
<1>4. ASSUME EndSubSteps PROVE Earlier(result, time') /\ Earlier(post, time')
  <2>1. pc = "substep" /\ cumTime >= dt /\ Control \in {"adaptive", "divergence"}
    BY <1>4 DEF EndSubSteps, MarchInv, TrialClock, InSubSteps
  <2>2. time' \in Int /\ time' > start
    <3>1. CASE Control = "adaptive"
      BY <1>4, <3>1, MarchFacts DEF EndSubSteps
    <3>2. CASE Control = "divergence"
      BY <1>4, <2>1, <3>2, MarchFacts DEF EndSubSteps, MarchInv, TrialClock
    <3> QED
      BY <2>1, <3>1, <3>2
  <2> QED
    BY <1>3, <2>2, MarchFacts, LaterThanSaved
<1>5. SaveTimes'
  BY <1>1, <1>2, <1>3, <1>4 DEF SaveTimes, Between, InSubSteps
<1>6. NoneSaved'
  BY <1>1, <1>2, <1>3 DEF MarchInv, NoneSaved
<1> QED
  BY <1>5, <1>6

\* What is written by the save of a step or of the end.
LEMMA SaveWrites ==
    ASSUME MarchInv, NEW current \in BOOLEAN, Save(current)
    PROVE  \E e \in SaveRecord :
             /\ e.time = time
             /\ e = Record(step, time, ActivateSlot(sol, "before saving", dt, time, step, Transient))
             /\ post' = Append(post, e)
             /\ result' = IF current THEN Append(result, e) ELSE result
<1> DEFINE before == ActivateSlot(sol, "before saving", dt, time, step, Transient)
           e == Record(step, time, before)
<1>1. Transient \in BOOLEAN /\ dt \in Int /\ time \in Int /\ step \in Nat
  BY TypeFacts DEF Transient, MarchInv
<1>2. before \in [Solver -> Field]
  BY <1>1, TypeFacts, ActivateSlotType DEF MarchInv
<1>3. post' = Append(post, e) /\ result' = IF current THEN Append(result, e) ELSE result
  BY DEF Save
<1> HIDE DEF before
<1>4. e \in SaveRecord /\ e.time = time
  <2>1. \A x \in Solver : before[x].val \in Int
    BY <1>2 DEF Field
  <2> QED
    BY <1>1, <2>1 DEF Record, SaveRecord
<1> QED
  BY <1>3, <1>4 DEF before

LEMMA SaveStepTimes ==
    ASSUME MarchInv, SaveStep PROVE SaveTimes' /\ NoneSaved'
<1>1. /\ pc = "save" /\ pc' = "check" /\ time' = time /\ cum' = cum /\ cum > 0
      /\ Ascends(result) /\ Ascends(post) /\ Earlier(result, time) /\ Earlier(post, time)
  BY DEF SaveStep, clockVars, MarchInv, SaveTimes, NoneSaved, InLoop
<1>2. \/ Save(~ FinalOnly) /\ lastSaved' = TRUE
      \/ lastSaved' = FALSE /\ result' = result /\ post' = post
  BY DEF SaveStep
<1>3. CASE Save(~ FinalOnly) /\ lastSaved' = TRUE
  <2>1. PICK e \in SaveRecord :
          /\ e.time = time
          /\ post' = Append(post, e)
          /\ result' = IF ~ FinalOnly THEN Append(result, e) ELSE result
    BY <1>3, SaveWrites, MarchFacts
  <2>2. Ascends(post') /\ UpTo(post', time)
    BY <1>1, <2>1, SavedNext, MarchFacts
  <2>3. Ascends(Append(result, e)) /\ UpTo(Append(result, e), time)
    BY <1>1, <2>1, SavedNext, MarchFacts
  <2>4. Ascends(result') /\ UpTo(result', time)
    BY <1>1, <2>1, <2>3, LaterThanSaved, MarchFacts
  <2>5. SaveTimes'
    BY <1>1, <1>3, <2>2, <2>4 DEF SaveTimes, Between, InSubSteps
  <2>6. NoneSaved'
    BY <1>1, <2>1 DEF MarchInv, NoneSaved
  <2> QED
    BY <2>5, <2>6
<1>4. CASE lastSaved' = FALSE /\ result' = result /\ post' = post
  <2>1. UpTo(result, time) /\ UpTo(post, time)
    BY <1>1, LaterThanSaved, MarchFacts
  <2>2. SaveTimes'
    BY <1>1, <1>4, <2>1 DEF SaveTimes, Between, InSubSteps
  <2>3. NoneSaved'
    BY <1>1, <1>4 DEF MarchInv, NoneSaved
  <2> QED
    BY <2>2, <2>3
<1> QED
  BY <1>2, <1>3, <1>4

\* The last save comes after all others, and is not a second one of its instant.
LEMMA FinalSaveTimes ==
    ASSUME MarchInv, FinalSave PROVE SaveTimes' /\ NoneSaved'
<1>1. /\ pc = "final" /\ pc' = "done" /\ Ascends(result) /\ Ascends(post)
      /\ UpTo(result, time) /\ UpTo(post, time)
      /\ Unsaved => Earlier(result, time) /\ Earlier(post, time)
      /\ FinalOnly => result = <<>>
  BY DEF FinalSave, Unsaved, MarchInv, SaveTimes, NoneSaved, Between
<1>2. Ascends(result') /\ Ascends(post')
  <2>1. CASE Unsaved
    <3>1. Save(~ FinalOnly)
      BY <2>1 DEF FinalSave
    <3>2. PICK e \in SaveRecord :
            /\ e.time = time
            /\ post' = Append(post, e)
            /\ result' = IF ~ FinalOnly THEN Append(result, e) ELSE result
      BY <3>1, SaveWrites, MarchFacts
    <3>3. Ascends(Append(post, e)) /\ Ascends(Append(result, e))
      BY <1>1, <2>1, <3>2, SavedNext, MarchFacts
    <3> QED
      BY <1>1, <3>2, <3>3
  <2>2. CASE ~ Unsaved
    <3>1. /\ post' = post
          /\ result' = IF FinalOnly THEN Append(result, Record(step, time, sol)) ELSE result
      BY <2>2 DEF FinalSave
    <3>2. ASSUME FinalOnly PROVE Ascends(Append(result, Record(step, time, sol)))
      <4>1. Record(step, time, sol) \in SaveRecord /\ Record(step, time, sol).time = time
        <5>1. \A x \in Solver : sol[x].val \in Int
          BY TypeFacts DEF MarchInv, Field
        <5> QED
          BY <5>1, TypeFacts DEF MarchInv, Record, SaveRecord
      <4>2. Earlier(result, time)
        BY <1>1, <3>2, NothingSaved
      <4> QED
        BY <1>1, <4>1, <4>2, SavedNext, MarchFacts
    <3> QED
      BY <1>1, <3>1, <3>2
  <2> QED
    BY <2>1, <2>2
<1>3. SaveTimes' /\ NoneSaved'
  BY <1>1, <1>2 DEF SaveTimes, NoneSaved, Between, InSubSteps, InLoop
<1> QED
  BY <1>3

LEMMA MarchStep == MarchInv /\ [Next]_vars => MarchInv'
<1> SUFFICES ASSUME MarchInv, [Next]_vars PROVE MarchInv'
  OBVIOUS
<1>1. TypeInv' /\ TrialClock'
  BY TypeStep, TrialClockStep DEF MarchInv
<1>2. SaveTimes' /\ NoneSaved'
  BY BeginTimestepTimes, UnwrittenTimes, SubStepTimes, SaveStepTimes, FinalSaveTimes
     DEF Next, Terminated
<1> QED
  BY <1>1, <1>2 DEF MarchInv

THEOREM MarchInvariant == Spec => []MarchInv
  BY InitialMarch, MarchStep, PTL DEF Spec

\* No instant is written twice and none out of order, to the result file or to
\* the post file, with any control of the steps, any output intervals and any
\* way out of the loop, 'Output File Final Only' and rough steps included.
THEOREM OutputAdvances == Spec => []SavesAdvance
<1>1. MarchInv => SavesAdvance
  BY DEF MarchInv, SaveTimes, SavesAdvance, Ascends
<1> QED
  BY MarchInvariant, <1>1, PTL

-----------------------------------------------------------------------------
(* The last state. *)

\* The post file ends with the present state.
Written ==
    /\ Len(post) > 0 /\ post[Len(post)].time = time
    /\ \A x \in Solver : Integrates(x) => post[Len(post)].level[x] = sol[x].val

\* LastSaved can be relied upon when the loop has been left, in whatever way.
LastInv ==
    /\ lastSaved /\ pc \in Between => Written
    /\ pc = "done" => Written

LEMMA SaveIsWritten ==
    ASSUME MarchInv, NEW current \in BOOLEAN, Save(current), time' = time
    PROVE  Written'
<1> DEFINE before == ActivateSlot(sol, "before saving", dt, time, step, Transient)
<1>1. PICK e \in SaveRecord :
        e.time = time /\ e = Record(step, time, before) /\ post' = Append(post, e)
  BY SaveWrites
<1>2. Len(post') > 0 /\ post'[Len(post')] = e
  <2>1. post \in Seq(SaveRecord) /\ post' = Append(post, e)
    BY <1>1, MarchFacts
  <2>2. Len(post') = Len(post) + 1 /\ post'[Len(post) + 1] = e /\ Len(post) \in Nat
    <3> HIDE DEF before
    <3> QED
      BY <2>1
  <2> QED
    BY <2>2
<1>3. ASSUME NEW x \in Solver, Integrates(x) PROVE e.level[x] = sol'[x].val
  <2>1. sol'[x] = sol[x]
    BY <1>3, SaveOthers DEF MarchInv
  <2>2. before[x] = sol[x]
    <3>1. Slot[x] # "before saving"
      BY <1>3 DEF Integrates, BeforeAndAt
    <3> QED
      BY <3>1 DEF ActivateSlot
  <2> HIDE DEF before
  <2>3. e.level[x] = before[x].val
    BY <1>1 DEF Record
  <2> QED
    BY <2>1, <2>2, <2>3
<1> QED
  BY <1>1, <1>2, <1>3 DEF Written, Integrates

LEMMA KeptWritten ==
    ASSUME Written, post' = post, time' = time,
           \A x \in Solver : Integrates(x) => sol'[x].val = sol[x].val
    PROVE  Written'
  BY DEF Written, Integrates

\* The solvers called before and after the loop are not those that integrate.
LEMMA OutsideOthers ==
    ASSUME BeforeSimulation \/ AfterSimulation, NEW x \in Solver, Slot[x] \in BeforeAndAt
    PROVE  sol'[x] = sol[x]
<1>1. Slot[x] # "before simulation" /\ Slot[x] # "after simulation"
  BY DEF BeforeAndAt
<1> QED
  BY <1>1 DEF BeforeSimulation, AfterSimulation, ActivateSlot

LEMMA LastStep == MarchInv /\ LastInv /\ [Next]_vars => LastInv'
<1> SUFFICES ASSUME MarchInv, LastInv, [Next]_vars PROVE LastInv'
  OBVIOUS
<1>1. CASE BeginTimestep \/ FixedStep \/ SubStep
  <2>1. pc' \notin Between /\ pc' # "done"
    BY <1>1, BegunStep
       DEF FixedStep, SubStep, AdaptiveFull, AdaptiveHalves, AdaptiveAccept, AdaptiveReject,
           DivergenceTry, DivergenceAccept, DivergenceReject, DivergenceFatal, EndSubSteps,
           Between, MarchInv
  <2> QED
    BY <2>1 DEF LastInv
<1>2. CASE \/ BeforeSimulation \/ NextInterval \/ NextTimestep \/ SteadyExit \/ EarlyExit
           \/ AfterSimulation
  <2>1. /\ pc \in Between /\ pc' \in Between /\ lastSaved' = lastSaved
        /\ post' = post /\ time' = time
    BY <1>2 DEF BeforeSimulation, NextInterval, NextTimestep, SteadyExit, EarlyExit,
                AfterSimulation, saveVars, clockVars, Between
  <2>2. ASSUME NEW x \in Solver, Integrates(x) PROVE sol'[x] = sol[x]
    <3>1. CASE BeforeSimulation \/ AfterSimulation
      BY <2>2, <3>1, OutsideOthers DEF Integrates
    <3>2. CASE NextInterval \/ NextTimestep \/ SteadyExit \/ EarlyExit
      BY <3>2 DEF NextInterval, NextTimestep, SteadyExit, EarlyExit
    <3> QED
      BY <1>2, <3>1, <3>2
  <2>3. pc' # "done"
    BY <2>1 DEF Between
  <2> QED
    BY <2>1, <2>2, <2>3, KeptWritten DEF LastInv
<1>3. CASE SaveStep
  <2>1. pc' = "check" /\ time' = time
    BY <1>3 DEF SaveStep, clockVars
  <2>2. Save(~ FinalOnly) \/ lastSaved' = FALSE
    BY <1>3 DEF SaveStep
  <2>3. Save(~ FinalOnly) => Written'
    BY <2>1, SaveIsWritten, MarchFacts
  <2> QED
    BY <2>1, <2>2, <2>3 DEF LastInv
<1>4. CASE FinalSave
  <2>1. pc = "final" /\ pc' = "done" /\ time' = time
    BY <1>4 DEF FinalSave, clockVars
  <2>2. CASE Unsaved
    <3>1. Save(~ FinalOnly)
      BY <1>4, <2>2 DEF FinalSave
    <3> QED
      BY <2>1, <3>1, SaveIsWritten, MarchFacts DEF LastInv, Between
  <2>3. CASE ~ Unsaved
    <3>1. post' = post /\ sol' = sol
      BY <1>4, <2>3 DEF FinalSave
    <3>2. Written
      BY <2>1, <2>3 DEF LastInv, Unsaved, Between
    <3> QED
      BY <2>1, <3>1, <3>2, KeptWritten DEF LastInv, Between
  <2> QED
    BY <2>2, <2>3
<1>5. CASE UNCHANGED vars
  BY <1>5 DEF LastInv, Written, Integrates, vars, clockVars, saveVars
<1> QED
  BY <1>1, <1>2, <1>3, <1>4, <1>5 DEF Next, Terminated

\* A simulation that ends, however it leaves the loop and whatever the output
\* intervals are, has its last state as the last one of the post file.
THEOREM LastIsWritten == Spec => []LastStateWritten
<1>1. Init => LastInv
  BY DEF Init, LastInv
<1>2. LastInv => LastStateWritten
  BY DEF LastInv, LastStateWritten, Written
<1> QED
  BY MarchInvariant, LastStep, <1>1, <1>2, PTL DEF Spec

-----------------------------------------------------------------------------
(* What is saved with a time is the state at that time. *)

\* The solvers without a time derivative that are evaluated in every step, and
\* those that are evaluated before every save.
Follows(x) ==
    /\ Slot[x] \in BeforeAndAt
    /\ Order[x] = 0 /\ ExecInterval[x] = 1 /\ x \notin SkipFirst

Prepared(x) == Slot[x] = "before saving" /\ Order[x] = 0 /\ ExecInterval[x] = 1

CurrentRecord(e) ==
    \A x \in Solver : Integrates(x) \/ Follows(x) \/ (Prepared(x) /\ x \notin SkipFirst)
                        => e.level[x] = e.time

\* A solver that follows the clock is at the end of the last trial or step, and
\* one that is evaluated before saves is at the clock since the last of them.
CurrentInv ==
    /\ \A r \in {result, post} : \A i \in 1 .. Len(r) : CurrentRecord(r[i])
    /\ \A x \in Solver : Follows(x) =>
         /\ pc \in Between \cup {"save"} => sol[x].val = time
         /\ pc = "judge" => sol[x].val = start + cumTime + ddt
         /\ pc = "substep" /\ cumTime >= dt => sol[x].val = start + cumTime
    /\ \A x \in Solver : Prepared(x) /\ lastSaved /\ pc \in Between => sol[x].val = time

LEMMA EvaluatedAtClock ==
    ASSUME NEW h \in Field, NEW x \in Solver, Order[x] = 0, ExecInterval[x] = 1,
           NEW d, NEW t \in Int, NEW st \in Int, NEW transient, NEW bad
    PROVE  Activate(h, x, d, t, st, transient, bad).val = t
<1>1. Executes(x, st)
  BY DEF Executes
<1>2. Activate(h, x, d, t, st, transient, bad) = [h EXCEPT !.val = t, !.diverged = bad]
  BY <1>1 DEF Activate
<1> QED
  BY <1>2 DEF Field

LEMMA SolveFollows ==
    ASSUME NEW u \in [Solver -> Field], NEW x \in Solver, Follows(x),
           NEW d, NEW t \in Int, NEW st \in Int, NEW slots, NEW first, NEW bad
    PROVE  LET v == SolveEquations(u, d, t, st, slots, first, bad)[x].val
           IN  /\ BeforeAndAt \subseteq slots => v = t
               /\ slots = After => v = u[x].val
<1> DEFINE h == IF Transient THEN InitializeTimestep(u[x], Order[x]) ELSE u[x]
           w == SolveEquations(u, d, t, st, slots, first, bad)[x]
<1>1. h \in Field /\ h.val = u[x].val
  BY InitializeTimestepType, SolverAssumption DEF Follows
<1>2. w = IF Slot[x] \in slots /\ ~ (first /\ x \in SkipFirst)
          THEN Activate(h, x, d, t, st, Transient, x \in bad) ELSE h
  BY DEF SolveEquations
<1> HIDE DEF h, w
<1>3. Activate(h, x, d, t, st, Transient, x \in bad).val = t
  BY <1>1, EvaluatedAtClock DEF Follows
<1>4. x \notin SkipFirst /\ Slot[x] \in BeforeAndAt /\ Slot[x] \notin After
  BY DEF Follows, BeforeAndAt, After
<1>5. BeforeAndAt \subseteq slots => w.val = t
  BY <1>2, <1>3, <1>4
<1>6. slots = After => w.val = u[x].val
  BY <1>1, <1>2, <1>4
<1> QED
  BY <1>5, <1>6 DEF w

\* A save of the present state is current, and leaves the solvers so.
LEMMA SaveIsCurrent ==
    ASSUME MarchInv, CurrentInv, NEW current \in BOOLEAN, Save(current),
           \A x \in Solver : Integrates(x) \/ Follows(x) => sol[x].val = time
    PROVE  /\ \A r \in {result', post'} : \A i \in 1 .. Len(r) : CurrentRecord(r[i])
           /\ \A x \in Solver : Follows(x) \/ Prepared(x) => sol'[x].val = time
<1> DEFINE before == ActivateSlot(sol, "before saving", dt, time, step, Transient)
           after  == ActivateSlot(before, "after saving", dt, time, step, Transient)
<1>0. Transient \in BOOLEAN /\ dt \in Int /\ time \in Int /\ step \in Int /\ sol \in [Solver -> Field]
  BY TypeFacts DEF Transient, MarchInv
<1>1. before \in [Solver -> Field]
  BY <1>0, ActivateSlotType
<1>2. PICK e \in SaveRecord :
        /\ e.time = time /\ e = Record(step, time, before)
        /\ post' = Append(post, e)
        /\ result' = IF current THEN Append(result, e) ELSE result
  BY SaveWrites
<1>3. sol' = after
  BY DEF Save
<1>4. ASSUME NEW x \in Solver, Integrates(x) \/ Follows(x) \/ Prepared(x)
      PROVE  before[x].val = time
  <2>1. CASE Prepared(x)
    <3> DEFINE h == sol[x]
    <3>1. h \in Field /\ before[x] = Activate(h, x, dt, time, step, Transient, FALSE)
      BY <1>0, <2>1 DEF ActivateSlot, Prepared
    <3> HIDE DEF h, before
    <3>2. Executes(x, step) /\ ~ (Order[x] > 0)
      <4>1. Order[x] = 0 /\ ExecInterval[x] = 1
        BY <2>1 DEF Prepared
      <4>2. step \in Int
        BY <1>0
      <4>3. (step - 1) % 1 = 0
        BY <4>2
      <4> QED
        BY <4>1, <4>3 DEF Executes
    <3>3. before[x] = [h EXCEPT !.val = time, !.diverged = FALSE]
      BY <3>1, <3>2 DEF Activate
    <3> QED
      BY <3>1, <3>3 DEF Field
  <2>2. CASE Integrates(x) \/ Follows(x)
    <3>1. Slot[x] # "before saving"
      BY <2>2 DEF Integrates, Follows, BeforeAndAt
    <3>2. before[x] = sol[x]
      BY <3>1 DEF ActivateSlot
    <3> HIDE DEF before
    <3> QED
      BY <2>2, <3>2
  <2> QED
    BY <1>4, <2>1, <2>2
<1> HIDE DEF before
<1>5. ASSUME NEW x \in Solver, Follows(x) \/ Prepared(x) PROVE after[x].val = time
  <2>1. Slot[x] # "after saving"
    BY <1>5 DEF Follows, Prepared, BeforeAndAt
  <2>2. after[x] = before[x]
    BY <2>1 DEF ActivateSlot
  <2> HIDE DEF after
  <2> QED
    BY <1>4, <1>5, <2>2
<1> HIDE DEF after
<1>6. CurrentRecord(e)
  <2>1. \A x \in Solver : e.level[x] = before[x].val
    BY <1>2 DEF Record
  <2> QED
    BY <1>2, <1>4, <2>1 DEF CurrentRecord
<1>7. ASSUME NEW r \in Seq(SaveRecord), \A i \in 1 .. Len(r) : CurrentRecord(r[i])
      PROVE  \A i \in 1 .. Len(Append(r, e)) : CurrentRecord(Append(r, e)[i])
  <2> SUFFICES ASSUME NEW i \in 1 .. Len(Append(r, e)) PROVE CurrentRecord(Append(r, e)[i])
    OBVIOUS
  <2>1. Append(r, e)[i] = IF i = Len(r) + 1 THEN e ELSE r[i]
    OBVIOUS
  <2>2. i # Len(r) + 1 => i \in 1 .. Len(r)
    OBVIOUS
  <2> QED
    BY <1>6, <1>7, <2>1, <2>2
<1>8. \A i \in 1 .. Len(Append(post, e)) : CurrentRecord(Append(post, e)[i])
  BY <1>7, MarchFacts DEF CurrentInv
<1>9. \A i \in 1 .. Len(Append(result, e)) : CurrentRecord(Append(result, e)[i])
  BY <1>7, MarchFacts DEF CurrentInv
<1>10. ASSUME NEW r \in {result', post'}, NEW i \in 1 .. Len(r) PROVE CurrentRecord(r[i])
  <2>1. r = Append(post, e) \/ r = Append(result, e) \/ r = result
    BY <1>2
  <2> QED
    BY <1>8, <1>9, <2>1 DEF CurrentInv
<1> QED
  BY <1>3, <1>5, <1>10

\* Between the steps and before a save, the solvers that integrate in time and
\* those that are evaluated in every step are at the clock.
LEMMA AtClock ==
    ASSUME SolutionInv, CurrentInv, Exact, pc \in Between \cup {"save"}
    PROVE  \A x \in Solver : Integrates(x) \/ Follows(x) => sol[x].val = time
<1>1. Reached = time
  BY DEF Between, Reached, InSubSteps
<1>2. \A x \in Solver : Integrates(x) => sol[x].val = time
  BY <1>1 DEF Between, SolutionInv, LevelInv
<1> QED
  BY <1>2 DEF CurrentInv

\* Nothing is written by most actions: what they owe is the solvers' levels.
LEMMA UnwrittenCurrent ==
    ASSUME CurrentInv, result' = result, post' = post, pc' \notin Between,
           \A x \in Solver : Follows(x) =>
             /\ pc' = "save" => sol'[x].val = time'
             /\ pc' = "judge" => sol'[x].val = start' + cumTime' + ddt'
             /\ pc' = "substep" /\ cumTime' >= dt' => sol'[x].val = start' + cumTime'
    PROVE  CurrentInv'
  BY DEF CurrentInv, CurrentRecord, Follows, Prepared, Integrates

LEMMA QuietCurrent ==
    ASSUME CurrentInv,
           \/ BeforeSimulation \/ NextInterval \/ NextTimestep \/ SteadyExit \/ EarlyExit
           \/ AfterSimulation
    PROVE  CurrentInv'
<1>1. /\ pc \in Between /\ pc' \in Between /\ lastSaved' = lastSaved
      /\ result' = result /\ post' = post /\ time' = time
  BY DEF BeforeSimulation, NextInterval, NextTimestep, SteadyExit, EarlyExit,
         AfterSimulation, saveVars, clockVars, Between
<1>2. ASSUME NEW x \in Solver, Follows(x) \/ Prepared(x) PROVE sol'[x] = sol[x]
  <2>1. Slot[x] # "before simulation" /\ Slot[x] # "after simulation"
    BY <1>2 DEF Follows, Prepared, BeforeAndAt
  <2>2. CASE BeforeSimulation \/ AfterSimulation
    BY <2>1, <2>2 DEF BeforeSimulation, AfterSimulation, ActivateSlot
  <2>3. CASE NextInterval \/ NextTimestep \/ SteadyExit \/ EarlyExit
    BY <2>3 DEF NextInterval, NextTimestep, SteadyExit, EarlyExit
  <2> QED
    BY <2>2, <2>3
<1>3. pc' # "judge" /\ pc' # "substep"
  BY <1>1 DEF Between
<1>4. ASSUME NEW x \in Solver, Follows(x) PROVE sol'[x].val = time'
  BY <1>1, <1>2, <1>4 DEF CurrentInv
<1>5. ASSUME NEW x \in Solver, Prepared(x), lastSaved' PROVE sol'[x].val = time'
  BY <1>1, <1>2, <1>5 DEF CurrentInv
<1> QED
  BY <1>1, <1>3, <1>4, <1>5 DEF CurrentInv, CurrentRecord, Follows, Prepared, Integrates

LEMMA StepCurrent ==
    ASSUME MarchInv, CurrentInv, BeginTimestep \/ FixedStep PROVE CurrentInv'
<1>1. result' = result /\ post' = post /\ pc' \notin Between /\ pc' # "judge"
  BY BegunStep DEF BeginTimestep, FixedStep, saveVars, Between, MarchInv
<1>2. CASE BeginTimestep
  <2>1. pc' # "save" /\ (pc' = "substep" => ~ (cumTime' >= dt'))
    BY <1>2, BegunStep DEF MarchInv
  <2> QED
    BY <1>1, <2>1, UnwrittenCurrent
<1>3. CASE FixedStep
  <2>1. /\ pc' = "save" /\ time' = time
        /\ sol' = SolveEquations(sol, dt, time, step, BeforeAndAt \cup After, realStep = 1, {})
    BY <1>3 DEF FixedStep
  <2>2. time \in Int /\ step \in Int /\ sol \in [Solver -> Field]
    BY TypeFacts DEF MarchInv
  <2>3. ASSUME NEW x \in Solver, Follows(x) PROVE sol'[x].val = time
    BY <2>1, <2>2, <2>3, SolveFollows
  <2> QED
    BY <1>1, <2>1, <2>3, UnwrittenCurrent
<1> QED
  BY <1>2, <1>3

LEMMA AdaptiveCurrent ==
    ASSUME MarchInv, CurrentInv,
           AdaptiveFull \/ AdaptiveHalves \/ AdaptiveAccept \/ AdaptiveReject
    PROVE  CurrentInv'
<1>1. result' = result /\ post' = post /\ pc' \notin Between /\ pc' # "save"
  BY DEF AdaptiveFull, AdaptiveHalves, AdaptiveAccept, AdaptiveReject, saveVars, Between
<1>2. CASE AdaptiveFull
  <2>1. pc' = "halves"
    BY <1>2 DEF AdaptiveFull
  <2> QED
    BY <1>1, <2>1, UnwrittenCurrent
<1>3. CASE AdaptiveHalves
  <2> DEFINE h      == Half(ddt)
             now    == start + cumTime
             first  == SolveEquations(Restored, h, now + h, h, BeforeAndAt, realStep = 1, {})
             second == SolveEquations(first, h, now + ddt, h, BeforeAndAt, realStep = 1, {})
  <2>1. /\ pc = "halves" /\ pc' = "judge"
        /\ start' = start /\ cumTime' = cumTime /\ ddt' = ddt
        /\ sol' = second
    BY <1>3 DEF AdaptiveHalves, subStepVars
  <2>2. h \in Int /\ now \in Int /\ ddt \in Int /\ now + h \in Int /\ now + ddt \in Int
    BY <2>1, TypeFacts, HalfSize DEF MarchInv, InSubSteps
  <2>3. Restored \in [Solver -> Field]
    BY RestoredType DEF MarchInv
  <2> HIDE DEF h, now
  <2>4. first \in [Solver -> Field]
    BY <2>2, <2>3, SolveEquationsType
  <2> HIDE DEF first
  <2>5. ASSUME NEW x \in Solver, Follows(x) PROVE second[x].val = now + ddt
    BY <2>2, <2>4, <2>5, SolveFollows
  <2> HIDE DEF second
  <2> QED
    BY <1>1, <2>1, <2>5, UnwrittenCurrent DEF now
<1>4. CASE AdaptiveAccept
  <2>1. /\ pc = "judge" /\ pc' = "substep" /\ start' = start /\ cumTime' = cumTime + ddt
        /\ sol' = SolveEquations(sol, Half(ddt'), time, step, After, realStep' = 1, {})
    BY <1>4 DEF AdaptiveAccept
  <2>2. /\ time \in Int /\ step \in Int /\ sol \in [Solver -> Field]
        /\ start \in Int /\ cumTime \in Int /\ ddt \in Int
    BY <2>1, TypeFacts DEF MarchInv, InSubSteps
  <2>3. ASSUME NEW x \in Solver, Follows(x) PROVE sol'[x].val = start' + cumTime'
    <3>1. sol'[x].val = sol[x].val
      BY <2>1, <2>2, <2>3, SolveFollows
    <3>2. sol[x].val = start + cumTime + ddt
      BY <2>1, <2>3 DEF CurrentInv
    <3> QED
      BY <2>1, <2>2, <3>1, <3>2
  <2> QED
    BY <1>1, <2>1, <2>3, UnwrittenCurrent
<1>5. CASE AdaptiveReject
  <2>1. pc = "judge" /\ pc' = "substep" /\ cumTime' = cumTime /\ dt' = dt
    BY <1>5 DEF AdaptiveReject, clockVars
  <2>2. ~ (cumTime' >= dt')
    BY <2>1, MarchFacts DEF MarchInv, TrialClock
  <2> QED
    BY <1>1, <2>1, <2>2, UnwrittenCurrent
<1> QED
  BY <1>2, <1>3, <1>4, <1>5

LEMMA DivergenceCurrent ==
    ASSUME MarchInv, CurrentInv,
           DivergenceTry \/ DivergenceAccept \/ DivergenceReject \/ DivergenceFatal
    PROVE  CurrentInv'
<1>1. result' = result /\ post' = post /\ pc' \notin Between /\ pc' # "save"
  BY DEF DivergenceTry, DivergenceAccept, DivergenceReject, DivergenceFatal, saveVars, Between
<1>2. CASE DivergenceTry
  <2> DEFINE d == Clip(ddt, dt - cumTime)
  <2>1. /\ pc = "substep" /\ pc' = "judge" /\ ddt' = d
        /\ start' = start /\ cumTime' = cumTime
    BY <1>2 DEF DivergenceTry
  <2>2. PICK bad \in SUBSET {x \in Solver : Slot[x] \in BeforeAndAt} :
          sol' = SolveEquations(sol, d, start + cumTime + d, step, BeforeAndAt, realStep = 1, bad)
    BY <1>2 DEF DivergenceTry
  <2>3. d \in Int
    BY <1>2, TriedSize DEF MarchInv, DivergenceTry
  <2> HIDE DEF d
  <2>4. step \in Int /\ sol \in [Solver -> Field] /\ start + cumTime + d \in Int
    BY <2>3, TypeFacts DEF MarchInv
  <2>5. ASSUME NEW x \in Solver, Follows(x) PROVE sol'[x].val = start + cumTime + d
    BY <2>2, <2>4, <2>5, SolveFollows
  <2> QED
    BY <1>1, <2>1, <2>5, UnwrittenCurrent
<1>3. CASE DivergenceAccept
  <2>1. pc = "judge" /\ pc' = "substep" /\ start' = start /\ cumTime' = cumTime + ddt
    BY <1>3 DEF DivergenceAccept
  <2>2. PICK bad \in SUBSET {x \in Solver : Slot[x] \in After} :
          sol' = SolveEquations(sol, ddt, time, step, After, realStep = 1, bad)
    BY <1>3 DEF DivergenceAccept
  <2>3. /\ time \in Int /\ step \in Int /\ sol \in [Solver -> Field]
        /\ start \in Int /\ cumTime \in Int /\ ddt \in Int
    BY <2>1, TypeFacts DEF MarchInv, InSubSteps
  <2>4. ASSUME NEW x \in Solver, Follows(x) PROVE sol'[x].val = start' + cumTime'
    <3>1. sol'[x].val = sol[x].val
      BY <2>2, <2>3, <2>4, SolveFollows
    <3>2. sol[x].val = start + cumTime + ddt
      BY <2>1, <2>4 DEF CurrentInv
    <3> QED
      BY <2>1, <2>3, <3>1, <3>2
  <2> QED
    BY <1>1, <2>1, <2>4, UnwrittenCurrent
<1>4. CASE DivergenceReject
  <2>1. pc = "judge" /\ pc' = "substep" /\ cumTime' = cumTime /\ dt' = dt
    BY <1>4 DEF DivergenceReject, clockVars
  <2>2. ~ (cumTime' >= dt')
    BY <2>1, MarchFacts DEF MarchInv, TrialClock
  <2> QED
    BY <1>1, <2>1, <2>2, UnwrittenCurrent
<1>5. CASE DivergenceFatal
  <2>1. pc' = "fatal"
    BY <1>5 DEF DivergenceFatal
  <2> QED
    BY <1>1, <2>1, UnwrittenCurrent
<1> QED
  BY <1>2, <1>3, <1>4, <1>5

LEMMA EndCurrent ==
    ASSUME MarchInv, CurrentInv, ~ Rough, EndSubSteps PROVE CurrentInv'
<1>1. /\ pc = "substep" /\ pc' = "save" /\ cumTime >= dt /\ sol' = sol
      /\ result' = result /\ post' = post
  BY DEF EndSubSteps, saveVars
<1>2. time' = start + cumTime
  <2>1. CASE Control = "adaptive"
    <3>1. cumTime = dt
      BY <1>1, MarchFacts DEF MarchInv, TypeInv, LoopInv, InSubSteps
    <3> QED
      BY <2>1, <3>1 DEF EndSubSteps
  <2>2. CASE Control = "divergence"
    BY <1>1, <2>2 DEF EndSubSteps, MarchInv, TrialClock
  <2> QED
    BY <1>1, <2>1, <2>2 DEF MarchInv, TrialClock, InSubSteps
<1>3. ASSUME NEW x \in Solver, Follows(x) PROVE sol'[x].val = time'
  BY <1>1, <1>2, <1>3 DEF CurrentInv
<1>4. pc' \notin Between
  BY <1>1 DEF Between
<1> QED
  BY <1>1, <1>3, <1>4, UnwrittenCurrent

LEMMA SaveStepCurrent ==
    ASSUME MarchInv, SolutionInv, CurrentInv, Exact, SaveStep PROVE CurrentInv'
<1>1. pc = "save" /\ pc' = "check" /\ time' = time
  BY DEF SaveStep, clockVars
<1>2. \A x \in Solver : Integrates(x) \/ Follows(x) => sol[x].val = time
  BY <1>1, AtClock
<1>3. CASE Save(~ FinalOnly)
  <2>1. /\ \A r \in {result', post'} : \A i \in 1 .. Len(r) : CurrentRecord(r[i])
        /\ \A x \in Solver : Follows(x) \/ Prepared(x) => sol'[x].val = time
    BY <1>2, <1>3, SaveIsCurrent, MarchFacts
  <2> QED
    BY <1>1, <2>1 DEF CurrentInv, CurrentRecord, Follows, Prepared, Integrates, Between
<1>4. CASE ~ lastSaved' /\ UNCHANGED <<result, post, sol>>
  BY <1>1, <1>2, <1>4 DEF CurrentInv, CurrentRecord, Follows, Prepared, Integrates, Between
<1> QED
  BY <1>3, <1>4 DEF SaveStep

LEMMA FinalSaveCurrent ==
    ASSUME MarchInv, SolutionInv, CurrentInv, Exact, FinalSave PROVE CurrentInv'
<1>1. pc = "final" /\ pc' = "done"
  BY DEF FinalSave
<1>2. \A x \in Solver : Integrates(x) \/ Follows(x) => sol[x].val = time
  BY <1>1, AtClock DEF Between
<1>3. \A r \in {result', post'} : \A i \in 1 .. Len(r) : CurrentRecord(r[i])
  <2>1. CASE Unsaved
    <3>1. Save(~ FinalOnly)
      BY <2>1 DEF FinalSave
    <3> QED
      BY <1>2, <3>1, SaveIsCurrent, MarchFacts
  <2>2. CASE ~ Unsaved
    <3> DEFINE e == Record(step, time, sol)
    <3>1. post' = post /\ ((result' = Append(result, e) /\ FinalOnly) \/ result' = result)
      BY <2>2 DEF FinalSave
    <3>2. \A x \in Solver : Prepared(x) => sol[x].val = time
      BY <1>1, <2>2 DEF CurrentInv, Unsaved, Between
    <3>3. CurrentRecord(e)
      <4>1. e.time = time /\ \A x \in Solver : e.level[x] = sol[x].val
        BY DEF Record
      <4> QED
        BY <1>2, <3>2, <4>1 DEF CurrentRecord
    <3>4. FinalOnly => result = <<>>
      BY <1>1 DEF MarchInv, NoneSaved
    <3> HIDE DEF e
    <3>5. ASSUME FinalOnly
          PROVE  \A i \in 1 .. Len(Append(result, e)) : CurrentRecord(Append(result, e)[i])
      <4>1. Append(result, e) = <<e>>
        BY <3>4, <3>5
      <4> QED
        BY <3>3, <4>1
    <3> QED
      BY <3>1, <3>5 DEF CurrentInv
  <2> QED
    BY <2>1, <2>2
<1> QED
  BY <1>1, <1>3 DEF CurrentInv, CurrentRecord, Follows, Prepared, Integrates, Between

LEMMA CurrentStep ==
    ASSUME Exact PROVE MarchInv /\ SolutionInv /\ CurrentInv /\ [Next]_vars => CurrentInv'
<1> SUFFICES ASSUME MarchInv, SolutionInv, CurrentInv, [Next]_vars PROVE CurrentInv'
  OBVIOUS
<1>1. CASE UNCHANGED vars
  <2>1. UNCHANGED <<pc, time, start, cumTime, ddt, dt, sol, lastSaved, result, post>>
    BY <1>1 DEF vars, clockVars, subStepVars, saveVars
  <2> QED
    BY <2>1 DEF CurrentInv, CurrentRecord, Follows, Prepared, Integrates
<1> QED
  BY <1>1, QuietCurrent, StepCurrent, AdaptiveCurrent, DivergenceCurrent, EndCurrent,
     SaveStepCurrent, FinalSaveCurrent
     DEF Next, SubStep, Terminated, Exact

LEMMA InitialCurrent == Init => CurrentInv
<1> SUFFICES ASSUME Init PROVE CurrentInv
  OBVIOUS
<1>1. result = <<>> /\ post = <<>> /\ time = 0 /\ pc = "start"
  BY DEF Init
<1>2. \A x \in Solver : sol[x].val = 0
  BY DEF Init, InitialField
<1> QED
  BY <1>1, <1>2 DEF CurrentInv

\* What is written with a time are the fields of that time, for any slots, step
\* sizes, refused trials and output intervals, in both files; for runs that are
\* neither rough nor start at zero.
THEOREM OutputIsCurrent ==
    ASSUME ~ Rough, ~ StartZero PROVE Spec => []SavedFieldsAreCurrent
<1>1. Exact
  BY DEF Exact
<1>2. CurrentInv => SavedFieldsAreCurrent
  BY DEF CurrentInv, CurrentRecord, SavedFieldsAreCurrent, Follows, Prepared, BeforeAndAt
<1>3. MarchInv /\ SolutionInv /\ CurrentInv /\ [Next]_vars => CurrentInv'
  BY <1>1, CurrentStep
<1> QED
  BY MarchInvariant, SolutionInvariant, InitialCurrent, <1>2, <1>3, PTL DEF Spec

-----------------------------------------------------------------------------
(* The time loop implements TimeMarch. *)

\* The instants of a file, as TimeMarch has them.
Times(r) == [i \in 1 .. Len(r) |-> r[i].time]

LEMMA TimesOfSaved ==
    ASSUME NEW r \in Seq(SaveRecord)
    PROVE  Times(r) \in Seq(Int) /\ Len(Times(r)) = Len(r)
<1>1. \A i \in 1 .. Len(r) : r[i].time \in Int
  BY SavedInstants
<1> QED
  BY <1>1 DEF Times

LEMMA TimesOfNext ==
    ASSUME NEW r \in Seq(SaveRecord), NEW e \in SaveRecord
    PROVE  Times(Append(r, e)) = Append(Times(r), e.time)
<1> DEFINE n == Len(r)
           a == Append(r, e)
           b == Append(Times(r), e.time)
<1>1. n \in Nat /\ Len(a) = n + 1 /\ a[n + 1] = e /\ \A i \in 1 .. n : a[i] = r[i]
  OBVIOUS
<1>2. Times(r) \in Seq(Int) /\ Len(Times(r)) = n /\ e.time \in Int
  BY TimesOfSaved DEF SaveRecord
<1>3. b \in Seq(Int) /\ Len(b) = n + 1 /\ b[n + 1] = e.time /\ \A i \in 1 .. n : b[i] = Times(r)[i]
  BY <1>2
<1>4. \A i \in 1 .. n : Times(r)[i] = r[i].time
  BY DEF Times
<1> HIDE DEF n, a, b
<1>5. b = [i \in 1 .. n + 1 |-> b[i]]
  BY <1>3
<1>6. \A i \in 1 .. n + 1 : b[i] = a[i].time
  <2> SUFFICES ASSUME NEW i \in 1 .. n + 1 PROVE b[i] = a[i].time
    OBVIOUS
  <2>1. CASE i \in 1 .. n
    BY <1>1, <1>3, <1>4, <2>1
  <2>2. CASE i = n + 1
    BY <1>1, <1>3, <2>2
  <2> QED
    BY <1>1, <2>1, <2>2
<1>7. Times(a) = [i \in 1 .. n + 1 |-> a[i].time]
  BY <1>1 DEF Times
<1> QED
  BY <1>5, <1>6, <1>7 DEF a, b

\* What a step may do to the march: nothing, move on, write, or end.
Stays   == Reached' = Reached /\ post' = post /\ (pc' = "done") = (pc = "done")
Moves   == Reached' > Reached /\ post' = post /\ pc # "done" /\ pc' # "done"
Writes  == /\ Reached' = Reached /\ pc # "done" /\ pc' # "done"
           /\ Earlier(post, Reached)
           /\ \E e \in SaveRecord : e.time = Reached /\ post' = Append(post, e)
Ends    == /\ Reached' = Reached /\ pc # "done" /\ pc' = "done"
           /\ \/ Len(post) > 0 /\ post[Len(post)].time = Reached /\ post' = post
              \/ /\ Earlier(post, Reached)
                 /\ \E e \in SaveRecord : e.time = Reached /\ post' = Append(post, e)

LEMMA QuietMoves ==
    ASSUME BeforeSimulation \/ NextInterval \/ NextTimestep \/ SteadyExit \/ EarlyExit
             \/ AfterSimulation
    PROVE  Stays
<1>1. pc \in Between /\ pc' \in Between \ {"start"} /\ post' = post /\ time' = time
  BY DEF BeforeSimulation, NextInterval, NextTimestep, SteadyExit, EarlyExit,
         AfterSimulation, saveVars, clockVars, Between
<1> QED
  BY <1>1 DEF Stays, Reached, InSubSteps, Between

LEMMA StepMoves ==
    ASSUME MarchInv, ~ StartZero, BeginTimestep \/ FixedStep PROVE Stays \/ Moves
<1>1. CASE BeginTimestep
  <2>1. /\ pc = "step" /\ pc' \in {"substep", "fixed"} /\ post' = post /\ time' = time + dt'
        /\ dt' \in Int /\ (pc' = "substep" => start' = time' - dt' /\ cumTime' = 0)
    BY <1>1, BegunStep DEF BeginTimestep, saveVars, MarchInv
  <2>2. Reached = time
    BY <2>1 DEF Reached, InSubSteps
  <2>3. Reached' = time
    <3>1. CASE pc' = "substep"
      BY <2>1, <3>1, MarchFacts DEF Reached, InSubSteps
    <3>2. CASE pc' = "fixed"
      BY <2>1, <3>2, MarchFacts DEF Reached, InSubSteps
    <3> QED
      BY <2>1, <3>1, <3>2
  <2> QED
    BY <2>1, <2>2, <2>3 DEF Stays
<1>2. CASE FixedStep
  <2>1. pc = "fixed" /\ pc' = "save" /\ post' = post /\ time' = time
    BY <1>2 DEF FixedStep, saveVars
  <2>2. Reached = time - dt /\ Reached' = time
    BY <2>1 DEF Reached, InSubSteps
  <2> QED
    BY <2>1, <2>2, MarchFacts DEF Moves
<1> QED
  BY <1>1, <1>2

LEMMA SubStepMoves ==
    ASSUME MarchInv, ~ Rough, SubStep PROVE Stays \/ Moves
<1>1. InSubSteps /\ pc # "done" /\ pc' # "done" /\ post' = post /\ start' = start
  BY DEF SubStep, AdaptiveFull, AdaptiveHalves, AdaptiveAccept, AdaptiveReject, DivergenceTry,
         DivergenceAccept, DivergenceReject, DivergenceFatal, EndSubSteps, InSubSteps,
         saveVars, subStepVars
<1>2. Reached = start + cumTime /\ ddt \in Int /\ ddt > 0
  BY <1>1, MarchFacts DEF Reached
<1>3. CASE AdaptiveFull \/ AdaptiveHalves \/ AdaptiveReject \/ DivergenceTry \/ DivergenceReject
  <2>1. InSubSteps' /\ cumTime' = cumTime
    BY <1>3 DEF AdaptiveFull, AdaptiveHalves, AdaptiveReject, DivergenceTry, DivergenceReject,
                InSubSteps, subStepVars
  <2> QED
    BY <1>1, <1>2, <2>1 DEF Stays, Reached
<1>4. CASE AdaptiveAccept \/ DivergenceAccept
  <2>1. InSubSteps' /\ cumTime' = cumTime + ddt
    BY <1>4 DEF AdaptiveAccept, DivergenceAccept, InSubSteps
  <2>2. Reached' = start + (cumTime + ddt)
    BY <1>1, <2>1 DEF Reached
  <2> QED
    BY <1>1, <1>2, <2>2, MarchFacts DEF Moves
<1>5. CASE DivergenceFatal
  <2>1. pc = "judge" /\ pc' = "fatal" /\ time' = time /\ Control = "divergence"
    BY <1>5 DEF DivergenceFatal, clockVars
  <2>2. Reached' = start + cumTime + ddt
    BY <2>1 DEF Reached, InSubSteps, MarchInv, TrialClock
  <2> QED
    BY <1>1, <1>2, <2>2, MarchFacts DEF Moves
<1>6. CASE EndSubSteps
  <2>1. pc = "substep" /\ pc' = "save" /\ cumTime >= dt
    BY <1>6 DEF EndSubSteps
  <2>2. time' = start + cumTime
    <3>1. CASE Control = "adaptive"
      <4>1. cumTime = dt
        BY <2>1, MarchFacts DEF MarchInv, TypeInv, LoopInv, InSubSteps
      <4> QED
        BY <1>6, <3>1, <4>1 DEF EndSubSteps
    <3>2. CASE Control = "divergence"
      BY <1>6, <2>1, <3>2 DEF EndSubSteps, MarchInv, TrialClock
    <3> QED
      BY <1>1, <3>1, <3>2 DEF MarchInv, TrialClock
  <2>3. Reached' = time'
    BY <2>1 DEF Reached, InSubSteps
  <2> QED
    BY <1>1, <1>2, <2>2, <2>3 DEF Stays
<1> QED
  BY <1>3, <1>4, <1>5, <1>6 DEF SubStep

LEMMA SaveMoves ==
    ASSUME MarchInv, LastInv, SaveStep \/ FinalSave PROVE Stays \/ Writes \/ Ends
<1>1. Reached = time /\ Reached' = time /\ pc # "done"
  BY DEF SaveStep, FinalSave, Reached, InSubSteps, clockVars
<1>2. ASSUME Save(~ FinalOnly) PROVE \E e \in SaveRecord : e.time = Reached /\ post' = Append(post, e)
  BY <1>1, <1>2, SaveWrites, MarchFacts
<1>3. CASE SaveStep
  <2>1. pc = "save" /\ pc' = "check" /\ Earlier(post, Reached)
    BY <1>1, <1>3 DEF SaveStep, MarchInv, SaveTimes
  <2>2. Save(~ FinalOnly) \/ post' = post
    BY <1>3 DEF SaveStep
  <2> QED
    BY <1>1, <1>2, <2>1, <2>2 DEF Stays, Writes
<1>4. CASE FinalSave
  <2>1. pc = "final" /\ pc' = "done"
    BY <1>4 DEF FinalSave
  <2>2. CASE Unsaved
    <3>1. Save(~ FinalOnly)
      BY <1>4, <2>2 DEF FinalSave
    <3>2. Earlier(post, Reached)
      BY <1>1, <2>1, <2>2 DEF Unsaved, MarchInv, SaveTimes, Between
    <3> QED
      BY <1>1, <1>2, <2>1, <3>1, <3>2 DEF Ends
  <2>3. CASE ~ Unsaved
    <3>1. post' = post
      BY <1>4, <2>3 DEF FinalSave
    <3>2. Len(post) > 0 /\ post[Len(post)].time = Reached
      BY <1>1, <2>1, <2>3 DEF Unsaved, LastInv, Written, Between
    <3> QED
      BY <1>1, <2>1, <3>1, <3>2 DEF Ends
  <2> QED
    BY <2>2, <2>3
<1> QED
  BY <1>3, <1>4

\* Each of these is a step of TimeMarch, or none.
LEMMA MarchMoves ==
    ASSUME MarchInv, MarchInv', Stays \/ Moves \/ Writes \/ Ends
    PROVE  [March!Next]_(March!vars)
<1> DEFINE w == Times(post)
<1>0. post \in Seq(SaveRecord) /\ w \in Seq(Int) /\ Len(w) = Len(post)
  BY MarchFacts, TimesOfSaved
<1>1. March!vars = <<Reached, w, pc = "done">>
      /\ March!vars' = <<Reached', Times(post'), pc' = "done">>
  BY DEF March!vars, Times
<1>2. March!IsWritten <=> Len(w) > 0 /\ w[Len(w)] = Reached
  BY DEF March!IsWritten, Times
<1>3. Len(post) > 0 => w[Len(w)] = post[Len(post)].time
  BY <1>0 DEF Times
<1>4. Earlier(post, Reached) => ~ March!IsWritten
  <2> SUFFICES ASSUME Earlier(post, Reached), March!IsWritten PROVE FALSE
    OBVIOUS
  <2>1. Len(post) > 0 /\ post[Len(post)].time = Reached
    BY <1>0, <1>2, <1>3
  <2>2. post[Len(post)].time < Reached
    BY <1>0, <2>1 DEF Earlier
  <2>3. post[Len(post)].time \in Int
    BY <1>0, <2>1, SavedInstants
  <2> QED
    BY <2>1, <2>2, <2>3
<1>5. \A e \in SaveRecord : post' = Append(post, e) => Times(post') = Append(w, e.time)
  BY <1>0, TimesOfNext
<1>6. CASE Stays
  BY <1>6 DEF Stays, March!vars
<1>7. CASE Moves
  BY <1>7 DEF Moves, March!Next, March!Advance
<1>8. CASE Writes
  <2>1. Times(post') = Append(w, Reached)
    BY <1>5, <1>8 DEF Writes
  <2>2. March!Write
    BY <1>4, <1>8, <2>1 DEF Writes, March!Write, Times
  <2> QED
    BY <2>2 DEF March!Next
<1>9. CASE Ends
  <2>1. CASE Len(post) > 0 /\ post[Len(post)].time = Reached /\ post' = post
    <3>1. March!IsWritten /\ Times(post') = w
      BY <1>0, <1>2, <1>3, <2>1
    <3>2. March!End
      BY <1>9, <3>1 DEF Ends, March!End, Times
    <3> QED
      BY <3>2 DEF March!Next
  <2>2. CASE /\ Earlier(post, Reached)
             /\ \E e \in SaveRecord : e.time = Reached /\ post' = Append(post, e)
    <3>1. ~ March!IsWritten /\ Times(post') = Append(w, Reached)
      BY <1>4, <1>5, <2>2
    <3>2. March!End
      BY <1>9, <3>1 DEF Ends, March!End, Times
    <3> QED
      BY <3>2 DEF March!Next
  <2> QED
    BY <1>9, <2>1, <2>2 DEF Ends
<1> QED
  BY <1>6, <1>7, <1>8, <1>9

\* The time loop implements the march in time that its output shows: trials,
\* refusals and halves are not seen, accepted steps move on, a save writes what
\* was not written yet, and the end leaves the last state written.
THEOREM LoopMarches ==
    ASSUME ~ Rough, ~ StartZero PROVE Spec => MarchSpec
<1>1. Init => March!Init
  <2> SUFFICES ASSUME Init PROVE March!Init
    OBVIOUS
  <2>1. Reached = 0 /\ post = <<>> /\ pc # "done"
    BY DEF Init, Reached, InSubSteps
  <2>2. [i \in 1 .. Len(post) |-> post[i].time] = <<>>
    BY <2>1
  <2> QED
    BY <2>1, <2>2 DEF March!Init
<1>2. Init => LastInv
  BY DEF Init, LastInv
<1>3. MarchInv /\ MarchInv' /\ LastInv /\ [Next]_vars => [March!Next]_(March!vars)
  <2> SUFFICES ASSUME MarchInv, MarchInv', LastInv, [Next]_vars
               PROVE  [March!Next]_(March!vars)
    OBVIOUS
  <2>1. UNCHANGED vars => Stays
    BY DEF vars, clockVars, subStepVars, saveVars, Stays, Reached, InSubSteps
  <2>2. Stays \/ Moves \/ Writes \/ Ends
    BY <2>1, QuietMoves, StepMoves, SubStepMoves, SaveMoves DEF Next, Terminated
  <2> QED
    BY <2>2, MarchMoves
<1> QED
  BY MarchInvariant, LastStep, <1>1, <1>2, <1>3, PTL DEF Spec, MarchSpec, March!Spec

-----------------------------------------------------------------------------
(* The histories and the ladder of step sizes. *)

\* The distances of the history h are the sizes of the last steps: of the newest
\* one and of those on the ladder, up to the order reached.
SpacedAfter(h, order) ==
    /\ h.val - h.prev[1] = size
    /\ \A i \in 1 .. MinOf(h.done, order) - 1 : h.prev[i] - h.prev[i + 1] = prevSizes[i]

\* The same while a step is made: the ladder has moved, the history has not.
SpacedBefore(h, order) ==
    h.done > 0 =>
        /\ h.val - h.prev[1] = prevSizes[1]
        /\ \A i \in 1 .. MinOf(h.done, order) - 1 : h.prev[i] - h.prev[i + 1] = prevSizes[i + 1]

\* The ladder moves with the histories because only the first step of all finds
\* the loop at the beginning of its first interval.
HistoryInv ==
    /\ pc = "start" => cum = 0
    /\ pc = "step" /\ timestep = 1 /\ interval = 1 => cum = 0
    /\ pc = "fixed" => size = dt
    /\ \A x \in Solver : Integrates(x) =>
         /\ cum = 0 => sol[x].done = 0
         /\ pc \in {"save", "check", "step"} /\ cum > 0 => SpacedAfter(sol[x], Order[x])
         /\ pc = "fixed" => SpacedBefore(sol[x], Order[x])

\* What a fixed step does to the history of a solver that integrates in time.
LEMMA SolveShifts ==
    ASSUME NEW u \in [Solver -> Field], NEW x \in Solver, Integrates(x),
           NEW d \in Int, NEW t \in Int, NEW st \in Int, NEW slots, NEW first, NEW bad,
           BeforeAndAt \subseteq slots,
           NEW v, v = SolveEquations(u, d, t, st, slots, first, bad)[x]
    PROVE  /\ v.done = MinOf(u[x].done + 1, PrevSizesLen)
           /\ \A i \in 2 .. MinOf(u[x].done + 1, Order[x]) : v.prev[i] = u[x].prev[i - 1]
<1> DEFINE g == u[x]
           h == InitializeTimestep(g, Order[x])
           order == Order[x]
<1>1. /\ Transient /\ Slot[x] \in slots /\ order > 0 /\ order \in 0 .. PrevSizesLen
      /\ ExecInterval[x] = 1 /\ x \notin SkipFirst /\ g \in Field
  BY SolverAssumption DEF Integrates
<1>2. Executes(x, st)
  BY <1>1 DEF Executes
<1>3. v = Activate(h, x, d, t, st, Transient, x \in bad)
  BY <1>1 DEF SolveEquations
<1>4. h \in Field
  BY <1>1, InitializeTimestepType
<1>5. /\ h.done = MinOf(g.done + 1, PrevSizesLen)
      /\ \A i \in 2 .. MinOf(g.done + 1, order) : h.prev[i] = g.prev[i - 1]
  <2> DEFINE used == MinOf(g.done + 1, order)
             new  == [i \in 1 .. PrevSizesLen |->
                        IF i > used THEN g.prev[i]
                        ELSE IF i = 1 THEN g.val ELSE g.prev[i - 1]]
             done == MinOf(g.done + 1, PrevSizesLen)
  <2> HIDE DEF g
  <2>1. h = [g EXCEPT !.done = done, !.prev = new]
    BY DEF InitializeTimestep
  <2>2. used \in Int /\ used <= PrevSizesLen
    <3>1. g.done \in Nat
      BY <1>1 DEF Field
    <3> QED
      BY <1>1, <3>1 DEF MinOf, PrevSizesLen
  <2> HIDE DEF used
  <2>3. \A i \in 2 .. used : new[i] = g.prev[i - 1]
    BY <2>2 DEF PrevSizesLen
  <2> HIDE DEF new, done, h
  <2>4. h.done = done /\ h.prev = new
    BY <1>1, <2>1 DEF Field
  <2> QED
    BY <2>3, <2>4 DEF used, done
<1> HIDE DEF h, g
<1>6. v = [h EXCEPT !.val = h.prev[1] + d, !.diverged = x \in bad]
  BY <1>1, <1>2, <1>3 DEF Activate
<1>7. v.done = h.done /\ v.prev = h.prev
  BY <1>4, <1>6 DEF Field
<1> QED
  BY <1>5, <1>7 DEF g

LEMMA BeginHistory ==
    ASSUME MarchInv, HistoryInv, Control = "fixed", BeginTimestep PROVE HistoryInv'
<1>1. /\ pc = "step" /\ pc' = "fixed" /\ size' = dt' /\ cum' = cum + 1
      /\ prevSizes' = ShiftedSizes /\ sol' = sol
  BY BegunStep DEF BeginTimestep, MarchInv
<1>2. ASSUME NEW x \in Solver, Integrates(x) PROVE SpacedBefore(sol[x], Order[x])'
  <2> DEFINE h == sol[x]
             order == Order[x]
  <2>1. h \in Field /\ order \in 0 .. PrevSizesLen
    BY TypeFacts, SolverAssumption DEF MarchInv
  <2>2. h.done \in Nat
    BY <2>1 DEF Field
  <2>3. CASE cum = 0
    <3>1. h.done = 0
      BY <1>2, <2>3 DEF HistoryInv
    <3> QED
      BY <1>1, <3>1 DEF SpacedBefore
  <2>4. CASE cum # 0
    <3>1. timestep > 1 \/ interval > 1
      <4>1. timestep \in Nat \ {0} /\ interval \in 1 .. TimeIntervals + 1 /\ TimeIntervals \in Nat
        BY LoopAssumption DEF MarchInv, TypeInv, TypeOK, TimeIntervals
      <4>2. ~ (timestep = 1 /\ interval = 1)
        BY <1>1, <2>4 DEF HistoryInv
      <4> QED
        BY <4>1, <4>2
    <3>2. prevSizes' = [i \in 1 .. PrevSizesLen |-> IF i = 1 THEN size ELSE prevSizes[i - 1]]
      BY <1>1, <3>1 DEF ShiftedSizes
    <3>3. prevSizes'[1] = size /\ \A i \in 1 .. PrevSizesLen - 1 : prevSizes'[i + 1] = prevSizes[i]
      BY <3>2 DEF PrevSizesLen
    <3>4. SpacedAfter(h, order)
      BY <1>1, <1>2, <2>4, MarchFacts DEF HistoryInv
    <3> HIDE DEF h, order
    <3>5. MinOf(h.done, order) <= PrevSizesLen /\ MinOf(h.done, order) \in Int
      BY <2>1, <2>2 DEF MinOf, PrevSizesLen
    <3>6. \A i \in 1 .. MinOf(h.done, order) - 1 : i \in 1 .. PrevSizesLen - 1
      BY <3>5 DEF PrevSizesLen
    <3>7. /\ h.val - h.prev[1] = prevSizes'[1]
          /\ \A i \in 1 .. MinOf(h.done, order) - 1 : h.prev[i] - h.prev[i + 1] = prevSizes'[i + 1]
      BY <3>3, <3>4, <3>6 DEF SpacedAfter
    <3> QED
      BY <1>1, <3>7 DEF SpacedBefore, h, order
  <2> QED
    BY <2>3, <2>4
<1>3. cum' # 0
  BY <1>1, MarchFacts
<1> QED
  BY <1>1, <1>2, <1>3 DEF HistoryInv, Integrates

LEMMA FixedHistory ==
    ASSUME MarchInv, HistoryInv, FixedStep PROVE HistoryInv'
<1>1. /\ pc = "fixed" /\ pc' = "save" /\ size' = size /\ prevSizes' = prevSizes /\ cum' = cum
      /\ sol' = SolveEquations(sol, dt, time, step, BeforeAndAt \cup After, realStep = 1, {})
  BY DEF FixedStep
<1>2. /\ sol \in [Solver -> Field] /\ sol' \in [Solver -> Field] /\ size = dt /\ cum > 0
      /\ dt \in Int /\ time \in Int /\ step \in Int
  <2>1. sol' \in [Solver -> Field]
    BY FixedStepType DEF MarchInv, TypeInv, TypeOK
  <2>2. size = dt /\ cum > 0
    BY <1>1 DEF MarchInv, NoneSaved, InLoop, HistoryInv
  <2> QED
    BY <2>1, <2>2, TypeFacts DEF MarchInv
<1>3. ASSUME NEW x \in Solver, Integrates(x) PROVE SpacedAfter(sol[x], Order[x])'
  <2> DEFINE g == sol[x]
             v == sol'[x]
             order == Order[x]
             old == MinOf(g.done, order)
             new == MinOf(v.done, order)
  <2>1. v.val = g.val + dt /\ v.prev[1] = g.val
    BY <1>1, <1>2, <1>3, SolveIntegrates
  <2>2. /\ v.done = MinOf(g.done + 1, PrevSizesLen)
        /\ \A i \in 2 .. MinOf(g.done + 1, order) : v.prev[i] = g.prev[i - 1]
    BY <1>1, <1>2, <1>3, SolveShifts
  <2>3. order \in 0 .. PrevSizesLen
    BY SolverAssumption
  <2>4. /\ g.done \in Nat /\ g.val \in Int
        /\ \A i \in 1 .. PrevSizesLen : g.prev[i] \in Int
    <3>1. g \in Field
      BY <1>2
    <3> HIDE DEF g
    <3> QED
      BY <3>1 DEF Field
  <2>5. SpacedBefore(g, order)
    BY <1>1, <1>3 DEF HistoryInv
  <2> HIDE DEF g, v, order
  <2>6. /\ new \in Int /\ new <= MinOf(g.done + 1, order) /\ new <= PrevSizesLen
        /\ old \in Int /\ new - 1 <= old
    BY <2>2, <2>3, <2>4 DEF MinOf, PrevSizesLen
  <2>7. v.val - v.prev[1] = size
    BY <1>2, <2>1, <2>4
  <2>8. ASSUME NEW i \in 1 .. new - 1 PROVE v.prev[i] - v.prev[i + 1] = prevSizes[i]
    <3>1. i + 1 \in 2 .. MinOf(g.done + 1, order) /\ v.prev[i + 1] = g.prev[i]
      <4>1. i + 1 \in 2 .. MinOf(g.done + 1, order)
        BY <2>3, <2>4, <2>6 DEF MinOf
      <4>2. v.prev[i + 1] = g.prev[(i + 1) - 1]
        BY <2>2, <4>1
      <4>3. (i + 1) - 1 = i
        OBVIOUS
      <4> QED
        BY <4>1, <4>2, <4>3
    <3>2. g.done > 0
      BY <2>3, <2>4, <2>6 DEF MinOf
    <3>3. CASE i = 1
      BY <2>1, <2>5, <3>1, <3>2, <3>3 DEF SpacedBefore
    <3>4. CASE i > 1
      <4>1. i \in 2 .. MinOf(g.done + 1, order) /\ i - 1 \in 1 .. old - 1
        BY <2>3, <2>4, <2>6, <3>1, <3>4 DEF MinOf
      <4>2. v.prev[i] = g.prev[i - 1]
        BY <2>2, <4>1
      <4>3. g.prev[i - 1] - g.prev[(i - 1) + 1] = prevSizes[(i - 1) + 1]
        BY <2>5, <3>2, <4>1 DEF SpacedBefore
      <4>4. (i - 1) + 1 = i
        OBVIOUS
      <4> QED
        BY <3>1, <4>2, <4>3, <4>4
    <3> QED
      BY <3>3, <3>4
  <2> QED
    BY <1>1, <2>7, <2>8 DEF SpacedAfter, g, v, order
<1> QED
  BY <1>1, <1>2, <1>3 DEF HistoryInv, Integrates

\* The other actions of a run with fixed steps leave ladder and histories alone.
LEMMA QuietHistory ==
    ASSUME MarchInv, HistoryInv,
           BeforeSimulation \/ NextInterval \/ SaveStep \/ NextTimestep
             \/ SteadyExit \/ EarlyExit \/ AfterSimulation \/ FinalSave
    PROVE  HistoryInv'
<1>1. /\ size' = size /\ prevSizes' = prevSizes /\ cum' = cum
      /\ pc' # "fixed" /\ pc' # "start"
      /\ \/ pc \in {"save", "check", "step"}
         \/ pc' \notin {"save", "check", "step"}
         \/ pc = "start"
  BY DEF BeforeSimulation, NextInterval, SaveStep, NextTimestep, SteadyExit, EarlyExit,
         AfterSimulation, FinalSave, clockVars
<1>2. ASSUME NEW x \in Solver, Integrates(x) PROVE sol'[x] = sol[x]
  <2>1. CASE BeforeSimulation \/ AfterSimulation
    BY <1>2, <2>1, OutsideOthers DEF Integrates
  <2>2. ASSUME NEW current, Save(current) PROVE sol'[x] = sol[x]
    BY <1>2, <2>2, SaveOthers DEF MarchInv
  <2>3. CASE SaveStep
    BY <2>2, <2>3 DEF SaveStep
  <2>4. CASE FinalSave
    BY <2>2, <2>4 DEF FinalSave
  <2>5. CASE NextInterval \/ NextTimestep \/ SteadyExit \/ EarlyExit
    BY <2>5 DEF NextInterval, NextTimestep, SteadyExit, EarlyExit
  <2> QED
    BY <2>1, <2>3, <2>4, <2>5
<1>3. pc' = "step" /\ timestep' = 1 /\ interval' = 1 => cum' = 0
  <2>1. CASE BeforeSimulation
    BY <1>1, <2>1 DEF BeforeSimulation, HistoryInv
  <2>2. CASE NextInterval
    <3>1. interval \in Int /\ interval >= 1
      BY LoopAssumption DEF MarchInv, TypeInv, TypeOK, TimeIntervals
    <3> QED
      BY <2>2, <3>1 DEF NextInterval
  <2>3. CASE NextTimestep
    <3>1. timestep \in Int /\ timestep >= 1
      BY DEF MarchInv, TypeInv, TypeOK
    <3> QED
      BY <2>3, <3>1 DEF NextTimestep
  <2>4. CASE SaveStep \/ SteadyExit \/ EarlyExit \/ AfterSimulation \/ FinalSave
    BY <2>4 DEF SaveStep, SteadyExit, EarlyExit, AfterSimulation, FinalSave
  <2> QED
    BY <2>1, <2>2, <2>3, <2>4
<1> QED
  BY <1>1, <1>2, <1>3 DEF HistoryInv, SpacedAfter, Integrates

LEMMA HistoryStep ==
    ASSUME Control = "fixed"
    PROVE  MarchInv /\ HistoryInv /\ [Next]_vars => HistoryInv'
<1> SUFFICES ASSUME MarchInv, HistoryInv, [Next]_vars PROVE HistoryInv'
  OBVIOUS
<1>1. ~ SubStep
  <2>1. SubStep => InSubSteps
    BY DEF SubStep, AdaptiveFull, AdaptiveHalves, AdaptiveAccept, AdaptiveReject, DivergenceTry,
           DivergenceAccept, DivergenceReject, DivergenceFatal, EndSubSteps, InSubSteps
  <2> QED
    BY <2>1 DEF MarchInv, TrialClock
<1>2. CASE UNCHANGED vars
  <2>1. UNCHANGED <<pc, timestep, interval, cum, size, dt, prevSizes, sol>>
    BY <1>2 DEF vars, clockVars
  <2> QED
    BY <2>1 DEF HistoryInv, SpacedAfter, SpacedBefore, Integrates
<1> QED
  BY <1>1, <1>2, BeginHistory, FixedHistory, QuietHistory DEF Next, Terminated

\* With fixed steps the history of every multistep solver is spaced as the ladder
\* of step sizes says, over all changes of the size and of the interval, for any
\* order and whether or not the clock starts at zero.
THEOREM HistoryFollowsLadder == Spec => []HistoryMatchesSizes
<1>1. CASE Control = "fixed"
  <2>1. Init => HistoryInv
    <3> SUFFICES ASSUME Init PROVE HistoryInv
      OBVIOUS
    <3>1. pc = "start" /\ cum = 0
      BY DEF Init
    <3>2. \A x \in Solver : sol[x].done = 0
      BY DEF Init, InitialField
    <3> QED
      BY <3>1, <3>2 DEF HistoryInv
  <2>2. HistoryInv => HistoryMatchesSizes
    BY DEF HistoryInv, HistoryMatchesSizes, SpacedAfter
  <2>3. MarchInv /\ HistoryInv /\ [Next]_vars => HistoryInv'
    BY <1>1, HistoryStep
  <2> QED
    BY MarchInvariant, <2>1, <2>2, <2>3, PTL DEF Spec
<1>2. CASE Control # "fixed"
  <2>1. HistoryMatchesSizes
    BY <1>2 DEF HistoryMatchesSizes
  <2> QED
    BY <2>1, PTL
<1> QED
  BY <1>1, <1>2

=============================================================================
