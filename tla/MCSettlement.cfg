SPECIFICATION Spec
CONSTANTS
  left = left
  right = right
  m1 = m1
  m2 = m2
  n1 = n1
  Peers = {left, right}
  Deliveries = {m1, m2, n1}
  From <- MCFrom
  Outcomes = {"ACCEPTED", "MODIFIED"}
  Batchable = {"ACCEPTED"}
  None = "None"
  Ids = 8
  Start = 7
  MaxCalls = 3
INVARIANTS OutcomesFaithful AgreeAtRest
CHECK_DEADLOCK FALSE
