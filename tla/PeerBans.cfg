SPECIFICATION Spec
CONSTANTS
  p1 = p1
  p2 = p2
  own = own
  both = both
  None = None
  Peer <- MCPeer
  Addr <- MCAddr
  Addresses <- MCAddresses
  Bootstrap = {own}
  Rude = {p1}
  Threshold = 3
  BanTicks = 1
  Cap = 1
  MinPeers = 1
  MaxPeers = 2
  RedialTicks = 1
  MaxClock = 2
  MaxPenalties = 3
INVARIANTS
  TypeOK
  BannedForTheWorstStretch
  BanSurfacesAgree
  TableFollowsBans
CHECK_DEADLOCK FALSE
