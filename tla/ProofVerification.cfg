SPECIFICATION Spec
CONSTANTS
  None = None
  p1 = p1  p2 = p2  p3 = p3  x = x  y = y
  s1 = s1  s2 = s2  c1 = c1  c2 = c2  r1 = r1  r2 = r2  t1 = t1  t2 = t2
  Setups <- MCSetups
  Slots = {c1, c2}
  MaxNow = 3
  Presentations = {p1, p2, p3}
  Retention = 2
  MaxEntries = 2
  Photos = {x, y}
  Requests = {r1, r2}
  Servers = {s1, s2}
  MaxUploads = 2
  MaxRetries = 1
  PurgeAge = 0
  Provers = {t1, t2}
  MaxPolls = 2
  MaxLength = 6
INVARIANTS AcceptedIsSound  PassIsBacked  PgpVerdictIsOwn
           PresentationIsVerified WaitIsAnswered RevealIsExact
SYMMETRY Symmetry
CHECK_DEADLOCK FALSE
