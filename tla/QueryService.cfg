SPECIFICATION FairSpec
CONSTANTS
  None = None
  q1 = q1  p1 = p1  p2 = p2  t1 = t1
  o1 = o1  o2 = o2  o3 = o3  c1 = c1  c2 = c2
  QueryIds = {q1}
  Providers = {p1, p2}
  Tokens = {t1}
  OracleIds = {o1, o2, o3}
  Slots = {c1, c2}
  LockedTo <- MCLockedTo
  Registry <- MCRegistry
  Shapes <- MCShapes
  Ports = {"escrow", "preimage", "frost"}
INVARIANTS
  TypeOK
  PaymentFollowsStatus
  SelectedTokenIsLocked
  SettlementIsEarned
  QuorumBacksApproval
PROPERTIES
  EveryQuerySettles
  FollowsLifecycle
CHECK_DEADLOCK FALSE
