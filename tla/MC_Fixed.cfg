\* Fixed steps.
SPECIFICATION FairSpec
CONSTANTS
  Solver <- CaseSolver
  Slot <- CaseSlot
  Order <- CaseOrder
  ExecInterval <- CaseExecInterval
  SkipFirst <- CaseSkipFirst
  SimulationType = "transient"
  Control = "fixed"
  Timesteps <- FixedTimesteps
  StepSizes <- FixedSizes
  OutputIntervals <- FixedOutput
  MaxTimestep = 8
  MinTimestep = 2
  Increase <- Double
  Decrease <- Halve
  KeepSmallest = 1
  Rough = FALSE
  Smart = FALSE
  StartZero = FALSE
  FinalOnly = FALSE
  MayExit = TRUE
  CoupledMinIter = 2
INVARIANTS
  HistoryMatchesSizes
  SavedFieldsAreCurrent
  LastStateWritten
