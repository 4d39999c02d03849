--------------------------- MODULE MCTimeStepping ---------------------------
(***************************************************************************)
(* Instances of TimeStepping for TLC.                                      *)
(***************************************************************************)
EXTENDS TimeStepping

\* The default coefficients, 2.0 and 0.5, on even numbers of ticks.
Double(d) == 2 * d
Halve(d)  == IF d <= 2 THEN d ELSE 2 * (d \div 4)

\* A case: a BDF solver of order 3, a first order one that skips the first step,
\* one without a time derivative, and one solver of each slot around the loop.
CaseSolver == {"bdf", "late", "static", "sparse", "post", "ahead", "behind", "setup", "closing"}
CaseSlot == [x \in CaseSolver |->
    CASE x = "post"    -> "after timestep"
      [] x = "ahead"   -> "before saving"
      [] x = "behind"  -> "after saving"
      [] x = "setup"   -> "before simulation"
      [] x = "closing" -> "after simulation"
      [] x = "static"  -> "before timestep"
      [] OTHER         -> "always"]
CaseOrder == [x \in CaseSolver |->
    CASE x = "bdf" -> 3 [] x = "late" -> 1 [] x = "sparse" -> 1 [] OTHER -> 0]
CaseExecInterval == [x \in CaseSolver |-> IF x = "sparse" THEN 2 ELSE 1]
CaseSkipFirst == {"late"}

\* Intervals: the second is empty and the third is never saved in the loop.
FixedTimesteps == <<3, 0, 2, 2>>
FixedSizes     == <<{2, 4}, {2}, {2, 6}, {4}>>
FixedOutput    == <<2, 1, 0, 2>>

AdaptiveTimesteps == <<2, 1>>
AdaptiveSizes     == <<{8}, {6, 12}>>
AdaptiveOutput    == <<1, 2>>

SteadyTimesteps == <<9>>
SteadySizes     == <<{2}>>
SteadyOutput    == <<3>>
=============================================================================
