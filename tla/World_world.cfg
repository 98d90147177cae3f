CONSTANTS
  MaxDepth = 2
  Blocks = {b1}
  Grace = 2
  TableMax = 1
  RingSlots = 3
  SaveFails = TRUE
  MaxSerial = 2
  Fields = {p1}
  PoolMax = 2
  FlushDelay = 3
  VoiceSlots = 3
  MaxVoices = 3
  Nodes = {1, 2}
  Loose = {1}
  AllocSlots = 3
  LockMisses = TRUE
  MaxSplices = 3
  MaxSaves = 3
  MaxFrame = 4
  Wrappers = {w1, w2}
  Handles = {h1, h2}
  DeathsMax = 1
  SurfaceSlots = 3
  MaxViews = 3
  Null = Null
  Absent = Absent
  PageSlots = 3
  PartSlots = 2
  Short = {"sounds"}
  MaxInstant = 4
  KickSlots = 3
  MaxKicks = 4
  Usable = 3
  Sizes = {1, 2}
  DonationSize = 1
  RegionsMax = 2
  RegionSlots = 3
  MaxDonations = 2
  MaxReserves = 2
  Objects = {"u1", "u2"}
  HuskCap = 3
  Probes = 2
  Home <- HomeOf
  HuskGrace = 2
  HuskSlots = 3
SPECIFICATION Spec
SYMMETRY Addresses
CHECK_DEADLOCK FALSE
INVARIANT TypeOK
INVARIANT HeldIsDead
INVARIANT NoStranger
INVARIANT VoicesOutliveWindow
INVARIANT ChainIsFree
INVARIANT NoDoubleMember
INVARIANT HandlesBacked
INVARIANT OneInstant
INVARIANT OnTrajectory
INVARIANT RegionsApart
INVARIANT HusksAreHeld
