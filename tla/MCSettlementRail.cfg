SPECIFICATION Spec
CONSTANTS
  agent = agent
  node = node
  r1 = r1
  Dids <- MCDids
  Amounts <- MCAmounts
  Refs <- MCRefs
  MaxSeq = 3
  MaxCredit = 3
INVARIANTS
  TypeOK
  Conserved
  RecordsTrue
PROPERTIES
  ImplementsPromise
CHECK_DEADLOCK FALSE
