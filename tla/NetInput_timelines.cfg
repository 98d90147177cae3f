SPECIFICATION LossySpec
CONSTANTS
    Peer = {P1, P2}
    Blob = {released}
    Neutral = released
    None = None
    Ring = 8
    Redundancy = 4
    GapCap = 4
    Barrier = 2
    FirstDelay = 1
    Delays = {2}
    MaxFrame = 1
    MaxEpoch = 3
    MaxAbandon = 0
    MaxNet = 2
INVARIANT SharedTimeline
PROPERTY ClockForward
PROPERTY ImplementsAgreement
PROPERTY TimelinesConverge
CHECK_DEADLOCK FALSE
