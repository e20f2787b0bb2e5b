SPECIFICATION CapturesSpec
CONSTANTS
    a = a
    b = b
    Clients = {a, b}
    Source <- MicrophoneAndUpload
    MaxSessions = 2
    MaxBlocks = 1
    MaxRestarts = 0
    Faults <- FaultKinds
    Imports = {1, 2}
    MaxBody = 2
    BlockBytes = 4
    MaxPcm = 6
    MaxKills = 1
INVARIANTS  SpoolsHaveOwners ImportsAreWhole
CHECK_DEADLOCK FALSE
