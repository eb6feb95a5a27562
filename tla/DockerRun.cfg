SPECIFICATION Spec
CONSTANTS
    NGroups = 2
    Size = 1
    Config <- Configs
    Faults = TRUE
    Unremovable <- OneContainer
    RateLimit = 1
INVARIANTS OutcomeSound NothingLeft CleanFinish
PROPERTIES RunEnds EndsWithInstances
CHECK_DEADLOCK FALSE
