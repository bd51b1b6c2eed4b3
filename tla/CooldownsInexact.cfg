SPECIFICATION Spec
CONSTANTS
  None = None
  Box = {}
  Identity = {}
  Like = {l1}
  Pair = {v}
  Post = {p1}
  Rest = {r0}
  Rest0 = r0
  Owned = {}
  CooldownBlocks = 3
  JournalWindow = 2
  ProofHistory = 3
  ShortReorgs = FALSE
  DoubleUnvouch = TRUE
  MaxHeight = 4
  MaxMutations = 1
  Owner <- MCOwner
  LikeTarget <- MCLikeTarget
INVARIANT CooldownsExact
