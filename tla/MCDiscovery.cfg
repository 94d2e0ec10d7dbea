SPECIFICATION Spec
CONSTANTS
  n1 = n1
  n2 = n2
  h1 = h1
  h2 = h2
  u1 = u1
  Nodes <- MCNodes
  Prices <- MCPrices
  Budgets <- MCBudgets
  Handlers <- MCHandlers
  Walkers <- MCWalkers
  Limit = 1
  Ttl = 1
  MaxQuery = 1
  MaxTime = 2
  MaxSeq = 3
INVARIANTS
  TypeOK
  WalkComplete
  StalenessBounded
  FirstSeenOnce
SYMMETRY Symmetry
