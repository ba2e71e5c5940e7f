CONSTANTS
  Ranks <- TwoRanks
  Zero = "r0"
  Roles <- ActorCritic
  Keep <- KeepTwo
  TotalSteps = 4
  MaxCrashes = 2
SPECIFICATION FairSpec
INVARIANTS
  ResumeSucceeds
PROPERTIES
  EventuallyEnds
