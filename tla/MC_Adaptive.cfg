\* Adaptive steps.
SPECIFICATION FairSpec
CONSTANTS
  Solver <- CaseSolver
  Slot <- CaseSlot
  Order <- CaseOrder
  ExecInterval <- CaseExecInterval
  SkipFirst <- CaseSkipFirst
  SimulationType = "transient"
  Control = "adaptive"
  Timesteps <- AdaptiveTimesteps
  StepSizes <- AdaptiveSizes
  OutputIntervals <- AdaptiveOutput
  MaxTimestep = 8
  MinTimestep = 2
  Increase <- Double
  Decrease <- Halve
  KeepSmallest = 1
  Rough = FALSE
  Smart = TRUE
  StartZero = FALSE
  FinalOnly = FALSE
  MayExit = TRUE
  CoupledMinIter = 2
INVARIANTS
  TypeOK
  SolutionAtClock
  SubStepsFit
  SavesAdvance
PROPERTIES
  MarchSpec
  RejectRestores
  Termination
