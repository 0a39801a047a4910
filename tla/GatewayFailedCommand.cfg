SPECIFICATION Spec
CONSTANTS
  Modes = {"up", "down", "hung"}
  Tracks = {"song"}
  Title <- MCTitle
  Utf8 = {"song"}
  NoTrack = NoTrack
  Msgs = {"playlist", "skip"}
  Kind <- MCKind
  NoMsg = NoMsg
  Faults = {}
  MaxFaults = 0
  MaxAttempts = 1
INVARIANTS
  SettledMeansDone
CHECK_DEADLOCK FALSE
