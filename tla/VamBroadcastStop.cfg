SPECIFICATION FairSpec
CONSTANTS
  QueueSize = 1
  TornModes = {TRUE}
PROPERTIES
  StopSilences
