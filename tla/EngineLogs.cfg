SPECIFICATION LogsFairSpec
CONSTANTS
    TaskId = {t1, t2}
    Priority = {0}
    Time = {1}
    Type = {"run"}
    NoErr = "none"
    NoResult = "nil"
    Err = {"none", "canceled"}
    Result = {"nil"}
    NoTask = NoTask
    Max = 2
    IOFaults = FALSE
    Worker = {w1}
    Handler = {}
    Ops = {}
    MaxKills = 0
    MaxCrashes = 0
    Follower = {f1}
    MaxLines = 1
INVARIANTS FollowSeesEnd
PROPERTIES FollowEnds
