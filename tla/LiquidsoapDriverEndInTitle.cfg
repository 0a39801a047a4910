SPECIFICATION Spec
CONSTANTS
  Transports = {"socket"}
  Addresses = 2
  Bodies <- EndInTitleBodies
  ChunkMax = 2
  MaxResponse = 2
  InitialBackoff = 2
  ResetBackoff = 1
  MaxBackoff = 4
  MaxCalls = 2
INVARIANTS
  OwnReply
CHECK_DEADLOCK FALSE
