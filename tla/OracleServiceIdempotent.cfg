SPECIFICATION Spec
CONSTANTS
  None = None
  q1 = q1  q2 = q2  p1 = p1  p2 = p2  h1 = h1  h2 = h2  h3 = h3
  good = good  bad = bad  c1 = c1  c2 = c2
  Queries = {q1}
  Providers = {p1}
  Hashes = {h1, h2}
  Proofs = {good}
  SignedProofs = {good}
  ValidProofs = {good}
  TlsnQueries = {}
  Setups <- MCPlain
  Messages = 1
  MaxAttempts = 1
  Persistent = FALSE
  Faults = {}
  HostCalls = {}
  Slots = {c1, c2}
INVARIANT HashIsIdempotent
CHECK_DEADLOCK FALSE
