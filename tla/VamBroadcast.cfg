SPECIFICATION FairSpec
CONSTANTS
  QueueSize = 1
  TornModes = {TRUE, FALSE}
INVARIANTS
  TypeOK
  PauseLetsOnePass
  TimerFollowsFlag
  GpsWatched
PROPERTIES
  GpsLossSeen
  StopHolds
