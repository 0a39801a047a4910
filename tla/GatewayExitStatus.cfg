SPECIFICATION FairSpec
CONSTANTS
  Modes = {"up", "down", "hung"}
  Tracks = {"song"}
  Title <- MCTitle
  Utf8 = {"song"}
  NoTrack = NoTrack
  Msgs = {"void"}
  Kind <- MCKind
  NoMsg = NoMsg
  Faults = {"setup"}
  MaxFaults = 1
  MaxAttempts = 1
PROPERTIES
  FatalErrorRestarts
CHECK_DEADLOCK FALSE
