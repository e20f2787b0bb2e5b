SPECIFICATION WorkspaceSpec
CONSTANTS
    Segment = 2
    Capacity = 1
    MaxBlock = 2
    MaxHead = 3
    AudioFaults = {"reserve", "index"}
    Events <- MCEvents
    EventSegment = 2
    MaxRows = 3
    MaxBatch = 2
    PageLimit = 1
    StoreFaults = {"evidence", "index"}
    Lanes = {"preview", "commit"}
    Segments <- MCSegments
    MaxDeaths = 3
    Faults <- AllFaults
    c1 = c1
    c2 = c2
    Clients = {c1, c2}
    Values = {"v"}
    PageSize = 1
    Recorded = 2
    MaxSessions = 3
    MaxRequests = 3
    Sessions = {1, 2}
    Active = 2
    ByteCap = 2
    MaxAge = 2
    Windows = 2
    MaxWindows = 3
    MaxTime = 2
    MaxPins = 1
    Family = {ann, ben}
    Processes = {server, command}
    MaxProfiles = 1
    MaxCrashes = 2
SYMMETRY MCSymmetry
INVARIANTS   NeverDeleteOnlyRecording ManifestTellsTruth NamesSurvive ListingsAreWhole DebugIsBounded FamilyIsWhole
PROPERTY AccessSurvives
CHECK_DEADLOCK FALSE
