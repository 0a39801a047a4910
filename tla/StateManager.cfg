SPECIFICATION InfoFairSpec
CONSTANTS
  Modes = {"up", "down", "hung"}
  Tracks <- MCTracks
  Title <- MCTitle
  Utf8 <- MCUtf8
  NoTrack = NoTrack
  Stod <- MCStod
  Reply <- MCReply
  Tags <- MCTags
  Clock = {4, 5}
  TicksPerSecond = 2
  MaxDuration = 9
INVARIANTS
  TypeOK
  BusMirrorsState
  PollCatchesUp
  StatePublishable
  ShowsTags
  EndsOnTime
PROPERTIES
  OnlyBadTextKills
  TitleConverges
