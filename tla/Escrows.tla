------------------------------ MODULE Escrows ------------------------------
(***************************************************************************)
(* What the contract (AlephEscrow) and the reference rail (SettlementRail) *)
(* both keep: a book of escrows, each of which is a deal between a payer   *)
(* and a payee, whatever else its record says.                             *)
(***************************************************************************)
EXTENDS Integers

CONSTANT Amounts   \* amounts asked for in a lock

VARIABLE escrows   \* mapping(bytes32 => Escrow); Map<escrowId, Escrow>

(* No record; the contract's status None. *)
NoEscrow == [status |-> "none"]

(* What the two parties agreed on, and how far it got. *)
Terms(e) ==
  IF e.status = "none" THEN NoEscrow
  ELSE [status |-> e.status, payer |-> e.payer, payee |-> e.payee, amount |-> e.amount]

=============================================================================
