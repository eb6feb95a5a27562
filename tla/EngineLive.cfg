SPECIFICATION FairSpec
CONSTANTS
    TaskId = {t1, t2}
    Priority = {0}
    Time = {1}
    Type = {"run"}
    NoErr = "none"
    NoResult = "nil"
    Err = {"none", "canceled"}
    Result = {"nil"}
    NoTask = NoTask
    Max = 2
    IOFaults = FALSE
    Worker = {w1}
    Handler = {h1, h2}
    Ops = {"kill", "list"}
    MaxKills = 1
    MaxCrashes = 0
PROPERTIES EveryTaskArchived KillIsHonoured
