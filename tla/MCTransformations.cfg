SPECIFICATION InputSpec
CONSTANTS
  Channels = {0, 1}
  SamplesPerTick = 2
  Grid = 2
  Window = 3
  Spread = 1
  Together = 2
  Plain = 2
  Wide = 4
  Limit = 5
  Events <- MCEvents
  MaxEvents = 3
  Notes <- MCNotes
  MaxNotes = 3
  ScoreNotes <- MCOutputs
  MaxOutputs = 3
  Measures <- MCMeasures
  MaxMeasures = 4
  Sounds <- MCSounds
  MaxSounds = 4
  Hop = 6
  LeftGuard = 2
  RightGuard = 4
  Tolerance = 3
  FrameCount = 13
  Performed <- MCPerformed
  MaxPerformed = 2
  MaxInput = 20
  MaxFrames = 2
  MaxPayload = 6
  MaxSize = 4
INVARIANTS AlignmentHolds EngravingKeepsMusic NotesAreKept DeliveryIsExact ServersAgree
CHECK_DEADLOCK FALSE
