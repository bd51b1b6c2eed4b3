SPECIFICATION Spec
CONSTANTS
  None = None
  Box = {b1}
  Identity = {u}
  Like = {}
  Pair = {}
  Post = {}
  Rest = {r0}
  Rest0 = r0
  Owned = {b1}
  CooldownBlocks = 4
  JournalWindow = 2
  ProofHistory = 3
  ShortReorgs = TRUE
  DoubleUnvouch = FALSE
  MaxHeight = 5
  MaxMutations = 2
  Owner <- MCOwner
  LikeTarget <- MCLikeTarget
PROPERTY LedgerSpec
INVARIANTS
  ProverCurrent
  StateExact
  VersionsTruthful
