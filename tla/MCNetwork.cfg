SPECIFICATION Spec
CONSTANTS
  Descriptors = 2
  Frames = {"lease", "ping"}
  Modes = {"STATIC", "DHCP", "DHCP_WITH_FALLBACK"}
  LeasePolls = 2
  ResetPolls = 2
  CheckEvery = 1
  Pool = 1
  MboxSize = 2
  UdpMbox = 1
  Burst = 2
  MaxLost = 1
  BeatEvery = 1
INVARIANTS
  TypeOK
  PbufsConserved
  NoAddressWithoutLink
  BuffersNotShared
PROPERTIES
  LeaseIsKept
  RingIsQueue
  LinkGivesAddress
  HeartbeatsGoOn
