CONSTANTS
  Workers = {w1, w2}
  Window = win
  MaxDepth = 2
  MaxStops = 2
SPECIFICATION Spec
INVARIANT TypeOK
INVARIANT NothingTorn
INVARIANT CompletePutsBack
PROPERTY WindowStaysDown
PROPERTY RollbackEnds
