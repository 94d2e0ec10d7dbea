SPECIFICATION GrantsSpec
CONSTANTS
  p = p
  a = a
  work = work
  r1 = r1
  Unlimited = Unlimited
  Absent = Absent
  Dids <- MCDids
  Caps <- MCCaps
  Guarded <- MCCaps
  PriceEur <- MCPrice
  Limits <- MCLimits
  odd = odd
  Odd <- MCOdd
  OddAbove = {}
  OddReached = {}
  Times <- MCTimes
  Requests <- MCRequests
  MaxDepth = 1
  MaxLinks = 3
  MaxForeign = 1
  MaxNow = 1
INVARIANTS
  AuthorityHolds
  MadeIsAccepted
SYMMETRY Symmetry
CHECK_DEADLOCK FALSE
