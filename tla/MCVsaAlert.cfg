SPECIFICATION FairSpec
CONSTANTS
  P1 = P1  P2 = P2
  Peers <- MCPeers
  Crd = CRD  Rear = CRD_REAR
  Scenarios <- MCScenarios
  Alarms = {VBD}
  Debounce = 1
  VsaQueueSize = 1
  SysQueueSize = 1
  MaxRestarts = 1
  Gone = Gone  Safe = Safe  NoKind = NoKind  NoPeer = NoPeer
INVARIANTS
  TypeOK
  PendingHasCause
  DriverFollows
PROPERTIES
  DangerAnnounced
  AlertsWithdrawn
  AlarmFollows
