SPECIFICATION Spec
CONSTANTS
  None = None
  q1 = q1  q2 = q2  p1 = p1  p2 = p2  h1 = h1  h2 = h2  h3 = h3
  good = good  bad = bad  c1 = c1  c2 = c2
  Queries = {q1}
  Providers = {p1, p2}
  Hashes = {h1}
  Proofs = {good, bad}
  SignedProofs = {good}
  ValidProofs = {good}
  TlsnQueries = {}
  Setups <- MCMixed
  Messages = 1
  MaxAttempts = 2
  Persistent = TRUE
  Faults = {"crash", "save"}
  HostCalls = {}
  Slots = {c1, c2}
INVARIANTS ReleaseIsEarned
PROPERTY RetainedUntilDelivered
SYMMETRY Symmetry
CHECK_DEADLOCK FALSE
