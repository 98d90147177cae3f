CONSTANTS
  Pages = {a}
  ZonePages = {}
  Excluded = {a}
  CoherentFull = {a}
  Values = {zero, one}
  Zero = zero
  RingSlots = 3
  MaxDepth = 2
  Windowed = TRUE
  SaveMayFail = FALSE
  MaxFrame = 6
SPECIFICATION Spec
CHECK_DEADLOCK FALSE
INVARIANT EveryLoadIsExact
