CONSTANTS
  Peer = {p1, p2}
  NumSync = 2
  DisconnectAfter = 12
  StaleAfter = 2
  HalfOpen = FALSE
  MaxLate = 2
  MaxFlips = 2
SPECIFICATION Spec
CHECK_DEADLOCK FALSE
INVARIANT SyncedByPeer
INVARIANT StaysUp
PROPERTY DeathNoticed
PROPERTY SyncCompletes
