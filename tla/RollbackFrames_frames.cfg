CONSTANTS
  Pads = {"up", "down"}
  Neutral = "up"
  MaxDepth = 2
  ManualDepth = 3
  MaxPrediction = 2
  StallMax = 2
  Give = {1}
  AdviceInterval = 2
  Delay = 1
  Ring = 3
  MaxFrame = 4
  MaxNet = 3
  MaxLines = 2
SPECIFICATION Spec
CHECK_DEADLOCK FALSE
INVARIANT TypeOK
PROPERTY ImplementsFrameClock
PROPERTY LateInputAsks
PROPERTY KeepsMoving
