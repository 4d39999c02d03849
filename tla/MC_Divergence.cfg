\* Divergence control.
SPECIFICATION FairSpec
CONSTANTS
  Solver <- CaseSolver
  Slot <- CaseSlot
  Order <- CaseOrder
  ExecInterval <- CaseExecInterval
  SkipFirst <- CaseSkipFirst
  SimulationType = "transient"
  Control = "divergence"
  Timesteps <- AdaptiveTimesteps
  StepSizes <- AdaptiveSizes
  OutputIntervals <- AdaptiveOutput
  MaxTimestep = 8
  MinTimestep = 2
  Increase <- Double
  Decrease <- Halve
  KeepSmallest = 1
  Rough = FALSE
  Smart = FALSE
  StartZero = FALSE
  FinalOnly = FALSE
  MayExit = TRUE
  CoupledMinIter = 2
INVARIANTS
  SolutionAtClock
PROPERTIES
  Termination
