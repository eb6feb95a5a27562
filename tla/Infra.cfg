SPECIFICATION Spec
CONSTANTS
    Thread = {t1, t2}
    Requests <- MCRequests
    Services <- MCServices
    Found <- MCFound
    Terminated = {"redis", "sidecar", "goproxy"}
    Faults = TRUE
INVARIANTS ReadyWhenTold ConflictNeedsOverlap
CHECK_DEADLOCK FALSE
