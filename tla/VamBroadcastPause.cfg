SPECIFICATION FairSpec
CONSTANTS
  QueueSize = 1
  TornModes = {FALSE}
PROPERTIES
  PauseEnds
