CONSTANTS
  Peer = {p1, p2}
  Lead = 1
  Disarms = TRUE
  Unreliable = TRUE
  MayRefuse = TRUE
  MayDrop = TRUE
  MaxPresses = 3
  MaxClock = 1
  MaxLine = 2
SYMMETRY Machines
SPECIFICATION Spec
CHECK_DEADLOCK FALSE
PROPERTY PressHasEffect
