----------------------------- MODULE MCLimiter -----------------------------
(* A small instance of Limiter: an address that two senders share, and a   *)
(* token that takes two steps of the clock.                                *)
EXTENDS Limiter, TLC

CONSTANTS i1, d1, d2, r1, r2

MCIps      == {i1}
MCDids     == {d1, d2}
MCRequests == {r1, r2}
Symmetry   == Permutations(MCDids) \cup Permutations(MCRequests)

=============================================================================
