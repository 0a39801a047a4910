SPECIFICATION FairSpec
CONSTANTS
  Modes = {"up", "down", "hung"}
  Tracks = {"song"}
  Title <- MCTitle
  Utf8 = {"song"}
  NoTrack = NoTrack
  Msgs = {"void"}
  Kind <- MCKind
  NoMsg = NoMsg
  Faults = {"link"}
  MaxFaults = 1
  MaxAttempts = 2
PROPERTIES
  Reconnects
CHECK_DEADLOCK FALSE
