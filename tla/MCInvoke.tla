------------------------------ MODULE MCInvoke ------------------------------
(* A small instance of Invoke: an agent that calls a priced node and a     *)
(* free one, and offers either of them nothing, too little, or the price.  *)
EXTENDS Invoke, TLC

CONSTANTS c1, c2, a, n, f

MCCalls   == {c1, c2}
MCAgents  == {a}
MCNodes   == {n, f}
MCAgentOf == c1 :> a @@ c2 :> a
MCNodeOf  == c1 :> n @@ c2 :> f
MCAmounts == 0 .. 2
MCPrice   == n :> 2 @@ f :> 0

=============================================================================
