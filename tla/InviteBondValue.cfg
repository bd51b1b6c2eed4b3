SPECIFICATION Spec
CONSTANTS
  ann = ann
  bob = bob
  i1 = i1
  i2 = i2
  Nobody = Nobody
  User <- MCUser
  Genesis <- MCGenesis
  Invite = {i1, i2}
  InviteAmount = 1
  BondAmount = 1
  ProbationBlocks = 1
  Threshold = 2
  MaxPendingInvites = 1
  MaxValue = 1
  MaxHeight <- MCMaxHeight
  MaxMoves <- MCMaxMoves
  MaxPool = 2
INVARIANT BondKeepsValue
SYMMETRY Slots
CHECK_DEADLOCK FALSE
