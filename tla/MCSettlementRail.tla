-------------------------- MODULE MCSettlementRail --------------------------
(* A small instance of SettlementRail: two parties, three escrows. *)
EXTENDS SettlementRail

CONSTANTS agent, node, r1

MCDids    == {agent, node}
MCRefs    == {r1}
MCAmounts == 0 .. 2

=============================================================================
