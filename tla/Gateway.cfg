SPECIFICATION FairSpec
CONSTANTS
  Modes = {"up", "down", "hung"}
  Tracks = {"latin1"}
  Title <- MCTitle
  Utf8 = {}
  NoTrack = NoTrack
  Msgs = {"playlist", "void"}
  Kind <- MCKind
  NoMsg = NoMsg
  Faults = {"kill", "link", "setup", "terminate"}
  MaxFaults = 1
  MaxAttempts = 2
INVARIANTS
  TypeOK
  NoDeliveryForgotten
PROPERTIES
  NoNeedlessRepeat
  DeliversCommands
  CorePreserved
  EveryCommandSettled
CHECK_DEADLOCK FALSE
