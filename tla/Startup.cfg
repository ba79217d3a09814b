SPECIFICATION LiveSpec
CONSTANTS
    MaxOutages = 2
    Settings <- MCSettings
INVARIANTS
    ServesOnSchema
    ServingCanWork
PROPERTIES
    ServesOnDemand
CHECK_DEADLOCK FALSE
