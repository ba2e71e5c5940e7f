CONSTANTS
  PoolSize = 5
  BatchSize = 3
  Floats <- FiveBits
  MinRho = 22
  MaxRho = 26
  InitialRho = 26
  Directions <- BothRecipes
  Alpha = 2
  Target = 3
  Accuracies <- NearTarget
  Window = 3
  MinHistory = 2
  SlopeNum = 4
  SlopeDen = 5
  MaxUpdates = 6
  MaxDeaths = 1
SPECIFICATION CurriculumSpec
INVARIANTS
  RowsBeforeCursor
  RefusedOnlyForFreshRatio
PROPERTIES
  WholePoolSampled
  LeavesOnce
