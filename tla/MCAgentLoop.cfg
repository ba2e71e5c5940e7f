SPECIFICATION Spec
CHECK_DEADLOCK FALSE
CONSTANTS
  Configs <- MCConfigs
  PromptLength = 2
  ResponseLength = 4
  MaxChunk = 2
INVARIANTS
  OutputAligned
  RequestsFit
  ResourcesReturned
  EnginesAwake
PROPERTIES
  EventuallyAnswered
