CONSTANTS
  Configs <- ShippedScript
  Problems <- ThreeProblems
  GenBatch = 2
  TrainBatch = 2
  Draws = 3
  TotalSteps = 2
  Profiled <- ProfiledSteps
  MaxCrashes = 1
SPECIFICATION Spec
INVARIANTS
  TrackedHasState
