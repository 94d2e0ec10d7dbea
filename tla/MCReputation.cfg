SPECIFICATION Spec
CONSTANTS
  a1 = a1
  a2 = a2
  n1 = n1
  n2 = n2
  p1 = p1
  p2 = p2
  p3 = p3
  h1 = h1
  h2 = h2
  c1 = c1
  esc1 = esc1
  lower = lower
  upper = upper
  Spellings <- MCSpellings
  Node = n1
  Agents <- MCAgents
  Subjects <- MCSubjects
  Payments <- MCPayments
  Terms <- MCTerms
  OnChain <- MCOnChain
  MadeUp <- MCMadeUp
  Times <- MCTimes
  Ratings <- MCRatings
  Handlers <- MCHandlers
  Clients <- MCClients
  MaxRating = 1
  Limit = 1
  MaxSeq = 2
  MaxEpoch = 1
  MaxRevs = 2
INVARIANTS
  TypeOK
  OneEach
  TrustIsEarned
  RevocationIsOwn
  WalkComplete
  NotModifiedIsTrue
SYMMETRY Symmetry
CHECK_DEADLOCK FALSE
