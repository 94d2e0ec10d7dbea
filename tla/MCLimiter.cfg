SPECIFICATION LimiterSpec
CONSTANTS
  i1 = i1
  d1 = d1
  d2 = d2
  r1 = r1
  r2 = r2
  Ips <- MCIps
  Dids <- MCDids
  Requests <- MCRequests
  Capacity = 2
  Token = 2
  Refill = 1
  MaxNow = 4
  MaxTurnBack = 2
  MaxSpent = 5
INVARIANTS
  RateBounded
  NotShutOut
SYMMETRY Symmetry
