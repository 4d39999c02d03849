\* A transient coupled iteration on three ranks.
SPECIFICATION Spec
CONSTANTS
  Rank <- Ranks
  NumberOfSolvers = 5
  Coupled = {1, 2, 4, 5}
  AfterConverged = {5}
  Active <- SharedActive
  Tolerance = {1, 2, 5}
  Relaxed = {}
  Refined = {1, 2}
  SimulationType = "transient"
  CoupledMinIter = 2
  CoupledMaxIter = 4
  TestDivergence = FALSE
  CoupledAbort = TRUE
INVARIANTS
  TypeOK
  RanksAgree
  ConvergedInOnePass
  OthersConverged
