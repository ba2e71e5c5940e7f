CONSTANTS
  Ranks <- TwoRanks
  Zero = "r0"
  Roles <- ActorOnly
  Keep <- KeepOne
  TotalSteps = 2
  MaxCrashes = 1
SPECIFICATION Spec
INVARIANTS
  ResumeSucceeds
