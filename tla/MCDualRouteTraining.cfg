CONSTANTS
  Configs <- AllConfigs
  TotalSteps = 3
  MaxCrashes = 2
SPECIFICATION FairSpec
INVARIANTS
  TypeOK
  OneMaskPerStep
  MaskOfStep
  OnlyIntendedFailures
  ScoredExactlyOnce
  ScoredAgainstThePast
  CausalPairing
  UpdatedOnce
PROPERTIES
  ImplementsResumable
  EventuallyTrained
