SPECIFICATION Spec
CONSTANTS
    TaskId = {t1, t2}
    Priority = {0}
    Time = {1}
    Type = {"run"}
    NoErr = "none"
    NoResult = "nil"
    Err = {"none", "canceled"}
    Result = {"nil"}
    NoTask = NoTask
    Max = 2
    IOFaults = TRUE
    Worker = {w1, w2}
    Handler = {h1}
    Ops = {"kill", "delete", "status", "list"}
    MaxKills = 2
    MaxCrashes = 1
SYMMETRY SafetySymmetry
INVARIANTS CanceledOnlyIfKilled RunningHasSignal ArchivedDeleteSticks 
PROPERTIES ImplementsQueue
CHECK_DEADLOCK FALSE
