SPECIFICATION Spec
CONSTANTS
  None = None
  q1 = q1  q2 = q2  m1 = m1  m2 = m2  a1 = a1  a2 = a2  s1 = s1  s2 = s2
  Signers = {1, 2}
  Threshold = 2
  Queries = {q1, q2}
  Messages = {m1, m2}
  MaxSessions = 3
  Scenes <- MCScenes
  Aggregators = {a1, a2}
  Slots = {s1, s2}
  MaxAttempts = 2
  TTL = 2
  Retention = 1
INVARIANTS NewestSessionIsNamed SignatureIsEarned SignerNonceUsedOnce 
 
CHECK_DEADLOCK FALSE
SYMMETRY Symmetry
