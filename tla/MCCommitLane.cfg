SPECIFICATION Spec
CONSTANTS
    Buffer = 6
    BaseHop = 1
    MaxHop = 2
    Guard = 4
    MinContext = 5
    PreviewLength = 2
    PreviewHop = 1
    IdentityRetention = 6
    MatchFrames = 1
    Played <- LongNote
    Imagined <- GhostNote
    MaxHead = 7
    MaxEvents = 5
INVARIANTS BandsWithinContext EventsFollowHorizon
PROPERTY DecisionsStand
CHECK_DEADLOCK FALSE
