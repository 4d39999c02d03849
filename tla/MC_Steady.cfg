\* Steady state.
SPECIFICATION FairSpec
CONSTANTS
  Solver <- CaseSolver
  Slot <- CaseSlot
  Order <- CaseOrder
  ExecInterval <- CaseExecInterval
  SkipFirst <- CaseSkipFirst
  SimulationType = "steady"
  Control = "fixed"
  Timesteps <- SteadyTimesteps
  StepSizes <- SteadySizes
  OutputIntervals <- SteadyOutput
  MaxTimestep = 8
  MinTimestep = 2
  Increase <- Double
  Decrease <- Halve
  KeepSmallest = 1
  Rough = FALSE
  Smart = FALSE
  StartZero = FALSE
  FinalOnly = FALSE
  MayExit = TRUE
  CoupledMinIter = 2
INVARIANTS
  LastStateWritten
PROPERTIES
  MarchSpec
