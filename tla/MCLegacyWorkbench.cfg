SPECIFICATION FairSpec
CONSTANTS
    c1 = c1
    c2 = c2
    u1 = u1
    Live = {c1, c2}
    Uploads = {u1}
    MaxBlocks = 2
    MaxRestarts = 1
    Faults = {"model", "disk", "transcriber"}
INVARIANT SlotHasListener
PROPERTY JobsSettle
CHECK_DEADLOCK FALSE
