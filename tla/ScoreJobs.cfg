SPECIFICATION FairSpec
CONSTANTS
    Requests = {r1, r2}
    Outputs = {o1}
    Nothing = Nothing
    MaxCommit = 2
    MaxJobs = 2
    MaxAsked = 2
    Faults = {"adapter", "crash", "delete"}
INVARIANT PublishedScoresExist
PROPERTIES  JobsEnd
CHECK_DEADLOCK FALSE
