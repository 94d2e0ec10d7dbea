---------------------------- MODULE MCReputation ----------------------------
(* A small instance of Reputation: a settlement of a reference rail, one   *)
(* of a made-up rail that also says esc1, and one on chain, whose id is    *)
(* written in two ways.                                                    *)
EXTENDS Reputation, TLC

CONSTANTS a1, a2, n1, n2, p1, p2, p3, h1, h2, c1, esc1, lower, upper

MCAgents   == {a1, a2}
MCSubjects == {n1, n2}
MCPayments == {p1, p2, p3}
MCSpellings == {esc1, lower, upper}
MCTerms    == (p1 :> [ids |-> {esc1}, payer |-> {a1}, payee |-> {n1}, amount |-> 1])
           @@ (p2 :> [ids |-> {esc1}, payer |-> {a2}, payee |-> {n1}, amount |-> 1])
           @@ (p3 :> [ids |-> {lower, upper}, payer |-> {a1}, payee |-> {n1}, amount |-> 1])
MCOnChain  == {p3}
MCMadeUp   == {p2}
MCTimes    == {1, 2}
MCRatings  == {1, 2}
MCHandlers == {h1, h2}
MCClients  == {c1}
Symmetry   == Permutations(MCHandlers) \cup Permutations({lower, upper})

=============================================================================
