SPECIFICATION Spec
CONSTANTS
  n1 = n1
  c2 = c2
  t1 = t1
  c1 = c1
  NoLimit = NoLimit
  Nodes <- MCNodes
  Terms <- MCTerms
  Maxima = {1}
  Tools <- MCTools
  Compositions <- MCCompositions
  Plans <- MCPlans
  HasRail = TRUE
  Signed = TRUE
  MaxDeploys = 2
INVARIANTS
  AsAgreed
  
  AuditedIsWhole
SYMMETRY Symmetry
CHECK_DEADLOCK FALSE
