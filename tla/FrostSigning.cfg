SPECIFICATION FairSpec
CONSTANTS
  None = None
  q1 = q1  j1 = j1  j2 = j2
  Nodes = {1, 2, 3}
  Threshold = 2
  Queries = {q1}
  Coordinators = {1, 2}
  Setups <- MCSetups
  Jobs = {j1, j2}
  MaxRepeats = 1
  MaxCalls = 1
INVARIANTS NonceUsedOnce ParticipantsSigned GrantsAreComplete
PROPERTIES GrantsAreEndorsed 
CHECK_DEADLOCK FALSE
