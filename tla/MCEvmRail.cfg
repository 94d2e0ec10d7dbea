SPECIFICATION Spec
CONSTANTS
  c1 = c1
  c2 = c2
  agent = agent
  p1 = p1
  p2 = p2
  Calls <- MCCalls
  Agent = agent
  Payees <- MCPayees
  Payee <- MCPayee
  Amount <- MCAmount
  Price <- MCPrice
  Supply = 3
  DeadlineSeconds = 1
  MaxTime = 2
INVARIANTS
  PaidOnDelivery
  ServedIsPayable
  AttestedIsPaid
  LoneLockIsReal
CHECK_DEADLOCK FALSE
