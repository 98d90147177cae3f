CONSTANTS
  Pages = {a, b}
  RingSlots = 2
  FoldRing = 2
  MaxSlots = 3
  MayToggle = TRUE
  ListMayFail = TRUE
  MayRecapture = TRUE
SPECIFICATION Spec
CHECK_DEADLOCK FALSE
INVARIANT TypeOK
INVARIANT OneOwner
PROPERTY ImplementsFold
PROPERTY DrainsEnd
