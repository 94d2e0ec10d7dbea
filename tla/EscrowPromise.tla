--------------------------- MODULE EscrowPromise ---------------------------
(***************************************************************************)
(* What a settlement rail promises to the two parties of an invocation,    *)
(* whatever the rail is made of: a deal is opened once, the payer's money  *)
(* leaves the payer when it is opened, and it arrives exactly once, whole, *)
(* either at the payee (released) or back at the payer (refunded).         *)
(*                                                                         *)
(* This is the seam PayerRail / PayeeRail of                               *)
(* packages/core/src/settle/payments.ts.  The on-chain contract            *)
(* (AlephEscrow) and the in-memory reference rail (SettlementRail) are     *)
(* both shown to implement it.                                             *)
(***************************************************************************)
EXTENDS Integers

CONSTANTS Ids,   \* escrow identifiers
          Addr,  \* the parties: DIDs on the reference rail, addresses on chain
          Amounts \* the amounts a deal can be about

VARIABLES deal,  \* what is agreed and how far it got, by escrow id
          funds  \* the spendable money of each party

vars == <<deal, funds>>

Init ==
  /\ \A i \in Ids : deal[i].status = "none"
  /\ funds \in [Addr -> Nat]

(* Money reaches a party from outside the rail. *)
Fund(who, amount) ==
  /\ funds' = [funds EXCEPT ![who] = @ + amount]
  /\ UNCHANGED deal

(* The payer puts `amount` aside for `payee`. *)
Open(i, payer, payee, amount) ==
  /\ deal[i].status = "none"
  /\ amount <= funds[payer]
  /\ deal' = [deal EXCEPT ![i] = [status |-> "locked", payer |-> payer,
                                  payee |-> payee, amount |-> amount]]
  /\ funds' = [funds EXCEPT ![payer] = @ - amount]

(* The money put aside goes to `who`, and the deal is over. *)
Close(i, status, who) ==
  /\ deal[i].status = "locked"
  /\ deal' = [deal EXCEPT ![i].status = status]
  /\ funds' = [funds EXCEPT ![who] = @ + deal[i].amount]

Pay(i)    == Close(i, "released", deal[i].payee)
Return(i) == Close(i, "refunded", deal[i].payer)

Next ==
  \/ \E who \in Addr, amount \in Amounts : Fund(who, amount)
  \/ \E i \in Ids, payer, payee \in Addr, amount \in Amounts : Open(i, payer, payee, amount)
  \/ \E i \in Ids : Pay(i) \/ Return(i)

Spec == Init /\ [][Next]_vars

(* Where the money is a token, its holders also move it without the rail.  *)
Transfer(from, to, amount) ==
  /\ amount <= funds[from]
  /\ funds' = [funds EXCEPT ![from] = @ - amount, ![to] = @ + amount]
  /\ UNCHANGED deal

TokenNext ==
  \/ Next
  \/ \E from, to \in Addr, amount \in Amounts : Transfer(from, to, amount)

TokenSpec == Init /\ [][TokenNext]_vars

=============================================================================
