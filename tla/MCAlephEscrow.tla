--------------------------- MODULE MCAlephEscrow ---------------------------
(* A small instance of AlephEscrow: a payer, a payee and a stranger the token blocks. *)
EXTENDS AlephEscrow, TLC

CONSTANTS e1, e2, alice, bob, carol, contract

MCIds       == {e1, e2}
MCAddr      == {alice, bob, carol}
MCBlocked   == {carol}
MCSupply    == alice :> 2 @@ bob :> 1 @@ carol :> 0
MCAmounts   == 0 .. 2
MCDeadlines == {0, 2}

=============================================================================
