---------------------------- MODULE MCDiscovery ----------------------------
(* A small instance of Discovery: two nodes, pages of one.                 *)
EXTENDS Discovery, TLC

CONSTANTS n1, n2, h1, h2, u1

MCNodes    == {n1, n2}
MCHandlers == {h1, h2}
MCWalkers  == {u1}
MCPrices   == {1}
MCBudgets  == {1}
Symmetry   == Permutations(MCNodes) \cup Permutations(MCHandlers)

=============================================================================
