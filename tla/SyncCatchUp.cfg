SPECIFICATION Spec
CONSTANTS
  None = None
  Node = {n1, n2, n3}
  First = n1
  Middle = n2
  Last = n3
  MaxHeight = 2
  MaxInv = 2
  MaxOutstanding = 2
  MaxServe = 1
  MaxMishaps = 1
  MinPeers <- MCMinPeers
  Dial <- MCDial
  After <- MCAfter
INVARIANTS
  TypeOK
  IdleIsClean
PROPERTY
  CatchesUp
