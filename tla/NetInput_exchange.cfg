SPECIFICATION Spec
CONSTANTS
    Peer = {P1, P2}
    Blob = {released, pressed}
    Neutral = released
    None = None
    Ring = 8
    Redundancy = 4
    GapCap = 4
    Barrier = 1
    FirstDelay = 1
    Delays = {1}
    MaxFrame = 3
    MaxEpoch = 1
    MaxAbandon = 1
    MaxNet = 2
SYMMETRY Machines
INVARIANT TypeOK
INVARIANT InputAgreement
INVARIANT SameGameOrCorrected
INVARIANT NoInputLostInFirstEpoch
CHECK_DEADLOCK FALSE
