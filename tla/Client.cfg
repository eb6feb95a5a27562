SPECIFICATION Spec
CONSTANTS
    Options <- MCOptions
    Pieces = 2
    MaxProgress = 1
    MaxCrashes = 1
    Faults = TRUE
INVARIANTS ExitSound SourcesComplete OneAnswer
PROPERTIES ClientEnds DownloadEnds
CHECK_DEADLOCK FALSE
