SPECIFICATION Spec
CONSTANTS
  r1 = r1
  r2 = r2
  n1 = n1
  n2 = n2
  u1 = u1
  u2 = u2
  Registries <- MCRegistries
  Peers <- MCPeers
  Persistent <- MCPersistent
  Nodes <- MCNodes
  Rounds <- MCRounds
  Owner <- MCOwner
  Limit = 1
  MaxVersion = 2
  MaxRev = 3
  MaxRestarts = 0
PROPERTIES
  PullsIdempotent
CHECK_DEADLOCK FALSE
