SPECIFICATION Spec
CONSTANTS
  None = None
  p1 = p1  p2 = p2  c1 = c1  c2 = c2
  Providers = {p1, p2}
  Slots = {c1, c2}
  MaxTokens = 5
  MaxSwaps = 3
  Setups <- MCSetups
INVARIANTS  LockCheckIsExact ReferencesAreDistinct LossIsReported 
SYMMETRY Symmetry
CHECK_DEADLOCK FALSE
