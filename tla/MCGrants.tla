----------------------------- MODULE MCGrants -----------------------------
(* A small instance of Grants: a priced and guarded capability, two        *)
(* holders, a limit or a not_after that is no number (nothing is above it, *)
(* it is above nothing, and no time reaches it) and one link that may be   *)
(* anything.                                                               *)
EXTENDS Grants, TLC

CONSTANTS p, a, work, r1, odd

MCDids     == {p, a}
MCCaps     == {work}
MCPrice    == work :> 2
MCLimits   == {1, 2}
MCOdd      == {odd}
MCTimes    == {1, 2}
MCRequests == {r1}
Symmetry   == Permutations(MCDids)

=============================================================================
