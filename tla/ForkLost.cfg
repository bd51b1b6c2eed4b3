SPECIFICATION Spec
CONSTANTS
  None = None
  n1 = n1
  n2 = n2
  h1 = h1
  h2 = h2
  Node = {n1, n2}
  Slot = {h1, h2}
  MaxReorgDepth = 2
  LostBodies = TRUE
  MaxHeight = 4
SYMMETRY Symmetry
PROPERTIES
  WorkNeverLost
