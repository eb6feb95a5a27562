SPECIFICATION Spec
CONSTANTS
    Containers = {c1, c2}
    Reactors = {"docker", "k8s"}
    Publishers = {c1}
    Configs <- MCConfigs
    MaxConfigs = 2
    MaxCrashes = 1
    Faults = TRUE
INVARIANTS BarrierSound WatchComplete
PROPERTIES AckedInForce EveryConfigAcked
CHECK_DEADLOCK FALSE
