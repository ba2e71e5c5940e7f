SPECIFICATION Spec
CONSTANTS
  ResponseWidth = 16
  Configs <- MCConfigs
INVARIANTS
  RowsReturned
  LogProbsOfOwnRow
  EvenLoad
  LossOfWholeShard
  ScoreOfAllCleanRows
  NoRankLeftWaiting
