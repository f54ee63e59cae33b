SPECIFICATION Spec
CONSTANTS
  None = None
  p1 = p1  p2 = p2
  Providers = {p1, p2}
  Amounts = {1, 2}
  Budget = 2
  MaxHash = 2
  Duration = 2
  MinRemaining = 1
  MaxTime = 3
  ReleaseForm = "service"
INVARIANT ReleaseIsReadable
CHECK_DEADLOCK FALSE
