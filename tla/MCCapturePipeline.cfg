SPECIFICATION FairSpec
CONSTANTS
  preview = preview
  commit = commit
  Lanes = {preview, commit}
  Commit = commit
  Handler = Handler
  Closer = Closer
  NoThread = NoThread
  Hop <- MCHop
  MaxHead = 2
  InitialMode = "live"
  Faults <- AllFaults
INVARIANTS CompleteCoversAudio
PROPERTIES ImplementsContract 
CHECK_DEADLOCK FALSE
