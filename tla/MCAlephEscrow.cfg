SPECIFICATION FairSpec
CONSTANTS
  e1 = e1
  e2 = e2
  alice = alice
  bob = bob
  carol = carol
  contract = contract
  ContractIds <- MCIds
  Addr <- MCAddr
  Contract = contract
  Blocked <- MCBlocked
  Supply <- MCSupply
  Amounts <- MCAmounts
  Deadlines <- MCDeadlines
  MaxTime = 2
  MaxDepth = 2
INVARIANTS
  ContractTypeOK
  OneCall
  Solvent
PROPERTIES
  SettlementAuthorised
  ContractImplementsPromise
  NeverStuck
CHECK_DEADLOCK FALSE
