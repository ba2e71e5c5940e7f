SPECIFICATION Spec
CONSTANTS
    Steps = 3
    MaxDeaths = 2
INVARIANTS
    GeneratesAsAsked
    PrefixesOfOwnForward
PROPERTY SleepingStorageUntouched
