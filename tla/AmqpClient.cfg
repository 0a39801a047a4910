SPECIFICATION ClientSpec
CONSTANTS
  ConnectTimeout = 2
  Timeouts = {0, 1}
  MaxLag = 1
  Never = Never
  Ops <- MCOps
  Kind <- MCKind
  Setters <- MCSetters
  Program <- MCProgram
  None = None
  Huge = 1000000
  TableNames <- MCTableNames
  Absent = Absent
  MaxDepth = 2
  Start <- MCStart
  Extras = {"close", "get", "cancel"}
  Recalls <- MCRecalls
  Envelopes <- MCEnvelopes
  ReadHeaders <- WireHeaders
  Tunes <- MCTunes
  WordRange = 65536
  MaxPolls = 1
INVARIANTS
  TypeOK
  LoopBalanced
  TimerKnown
  HeartbeatsFlow
  OperationsKept
  ReportedOnce
  AnswersMatch
  MessagesIntact
  BuffersFilled
  WaitsAreTimed
PROPERTIES
  ClosedOnlyAfterSilence
  FollowsHeartbeat
