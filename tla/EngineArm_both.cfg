CONSTANTS
  Peer = {p1, p2}
  Lead = 2
  Disarms = FALSE
  Unreliable = FALSE
  MayRefuse = FALSE
  MayDrop = FALSE
  MaxPresses = 2
  MaxClock = 3
  MaxLine = 3
SPECIFICATION Spec
CHECK_DEADLOCK FALSE
INVARIANT SameFrame
PROPERTY BothArm
