SPECIFICATION FairSpec
CONSTANTS
    p1 = p1
    c1 = c1
    c2 = c2
    Lanes = {p1, c1, c2}
    Kind <- MCKind
    Unloader = unloader
    MaxWorkers = 2
    MaxRequests = 2
    MaxUnloads = 1
    Faults = {"slow", "error", "killed"}
INVARIANTS InferenceIsAnswered PoolKeepsWorkers
PROPERTY CallsReturn
CHECK_DEADLOCK FALSE
