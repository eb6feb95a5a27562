SPECIFICATION FairSpec
CONSTANTS
    TaskId = {t1}
    Priority = {0}
    Time = {1}
    Type = {"run"}
    NoErr = "none"
    NoResult = "nil"
    Err = {"none", "canceled"}
    Result = {"nil"}
    NoTask = NoTask
    Max = 2
    IOFaults = FALSE
    Worker = {w1}
    Handler = {h1, h2}
    Ops = {"status"}
    MaxKills = 1
    MaxCrashes = 1
PROPERTY ActiveTasksResume
