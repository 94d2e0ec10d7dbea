SPECIFICATION FairSpec
CONSTANTS
  c1 = c1
  c2 = c2
  a = a
  n = n
  f = f
  Calls <- MCCalls
  Agents <- MCAgents
  Nodes <- MCNodes
  AgentOf <- MCAgentOf
  NodeOf <- MCNodeOf
  Price <- MCPrice
  Amounts <- MCAmounts
  MaxSeq = 2
  MaxCredit = 2
  MaxCopies = 2
  Persistent = TRUE
INVARIANTS
  RunsOnce
  PaidInFull
PROPERTIES
  IsFairExchange
  LockedIsSettled
CHECK_DEADLOCK FALSE
