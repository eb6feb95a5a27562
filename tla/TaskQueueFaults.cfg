SPECIFICATION Spec
CONSTANTS
    TaskId = {t1, t2, t3}
    Priority = {0, 1}
    Time = {1, 2}
    Type = {"run"}
    NoErr = "none"
    NoResult = "nil"
    Err = {"none"}
    Result = {"nil"}
    NoTask = NoTask
    Max = 2
    IOFaults = TRUE
SYMMETRY IdSymmetry
INVARIANTS OnePrefix AtMostOnce IInv
PROPERTIES ArchiveFinal ImplementsLifecycle
