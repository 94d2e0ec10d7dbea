------------------------------ MODULE MCEvmRail ------------------------------
(* A small instance of EvmRail: two calls to two nodes, the second smaller *)
(* than the first, from a wallet that can pay both.                        *)
EXTENDS EvmRail, TLC

CONSTANTS c1, c2, agent, p1, p2

MCCalls  == {c1, c2}
MCPayees == {p1, p2}
MCPayee  == c1 :> p1 @@ c2 :> p2
MCAmount == c1 :> 2 @@ c2 :> 1
MCPrice  == c1 :> 2 @@ c2 :> 1

=============================================================================
