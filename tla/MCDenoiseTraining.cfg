CONSTANTS
  Configs <- AllPaths
  Problems <- ThreeProblems
  GenBatch = 2
  TrainBatch = 2
  Draws = 3
  TotalSteps = 2
  Profiled <- ProfiledSteps
  MaxCrashes = 2
SPECIFICATION Spec
INVARIANTS
  OnPolicy
  FedOncePerRound
  EveryActiveMeasured
  SavedTogether
  DataInOrder
