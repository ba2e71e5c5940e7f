SPECIFICATION Spec
CONSTANTS
  Configs <- MCConfigs
  World = 2
  RowsPerRank = 2
  TotalSteps = 3
  MaxCrashes = 2
INVARIANTS
  StateOfUpdates
  ReplicasAgree
  GivenByThePast
  WeightOfOwnRow
