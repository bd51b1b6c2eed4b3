SPECIFICATION Spec
CONSTANTS
  a = a
  p1 = p1
  p2 = p2
  s = s
  Identity = {s,a}
  System = s
  Writer = a
  Root = p1
  Post = {p1,p2}
  LikeCost = 1
  LikesPerPayout = 2
  UnlockPerLikes = 1
  LockCost = 4
  VouchAmount = 1
  CooldownBlocks = 2
  StaleThreshold = 2
  DecayInterval = 2
  DecayAmount = 1
  KarmaMinimum = 1
  SystemKarma = 6
  GrantAmount = 4
  ClientRules = TRUE
  MaxHeight = 5
  MaxTxs = 2
  MaxVouches = 2
  Author <- MCAuthor
  Thread <- MCThread
INVARIANTS
  TypeOK
  DecayCharged
  KarmaConserved
  PaidExactly
  LocksVest
CHECK_DEADLOCK FALSE
