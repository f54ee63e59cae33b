SPECIFICATION FairSpec
CONSTANTS
  None = None
  q1 = q1  q2 = q2  p1 = p1  p2 = p2  h1 = h1  h2 = h2  h3 = h3
  good = good  bad = bad  c1 = c1  c2 = c2
  Queries = {q1}
  Providers = {p1}
  Hashes = {h1, h2}
  Proofs = {good, bad}
  SignedProofs = {good}
  ValidProofs = {good}
  TlsnQueries = {q1}
  Setups <- MCQuorum
  Messages = 2
  MaxAttempts = 2
  Persistent = FALSE
  Faults = {}
  HostCalls = {"deliver", "frost"}
  Slots = {c1}
INVARIANTS CommitmentIsKept
 
CHECK_DEADLOCK FALSE
