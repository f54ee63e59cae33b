SPECIFICATION Spec
CONSTANTS
  None = None
  Torn = Torn
  h1 = h1  h2 = h2  h3 = h3  i1 = i1  i2 = i2  i3 = i3  i4 = i4  c1 = c1  c2 = c2
  Hashes = {h1, h2}
  Inodes = {i1, i2, i3, i4}
  Slots = {c1, c2}
INVARIANTS FileIsWhole

CHECK_DEADLOCK FALSE
