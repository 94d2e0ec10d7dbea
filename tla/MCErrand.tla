----------------------------- MODULE MCErrand -----------------------------
(* A small instance of Errand: one call of the tool and two compositions   *)
(* of two steps, with a node that may be redeployed once.                  *)
EXTENDS Errand, TLC

CONSTANTS n1, t1, c1, c2

MCNodes  == {n1}
MCTerms  == {[offered |-> TRUE, price |-> 1, risky |-> TRUE],
             [offered |-> TRUE, price |-> 2, risky |-> FALSE],
             [offered |-> FALSE, price |-> 0, risky |-> FALSE]}
MCTools  == {t1}
MCCompositions == {c1, c2}
At1(pay) == [node |-> n1, pay |-> pay]
MCPlans  == {<<At1(1), At1(2)>>}
Symmetry == Permutations(MCCompositions)

=============================================================================
