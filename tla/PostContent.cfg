SPECIFICATION Spec
CONSTANTS
  None = None
  Zero = Zero
  Node = {n1, n2}
  Post = {p1, p2}
  Tx = {t1}
  Misnaming = {n2}
  User = {alice, bob}
  Thread = p1
  Alice = alice
  PoolCap = 2
  MaxHeight = 4
  Author <- MCAuthor
  Parent <- MCParent
INVARIANTS
  TypeOK
  TopologyOfChain
  ConfirmedIsListed
PROPERTIES
  ContentKept
  ReorgKeepsPosts
CHECK_DEADLOCK FALSE
