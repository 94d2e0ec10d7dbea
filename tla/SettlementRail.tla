--------------------------- MODULE SettlementRail ---------------------------
(***************************************************************************)
(* packages/core/src/settle/rail.ts: the in-memory reference rail, one     *)
(* object that the agents and the nodes of a process share.                *)
(*                                                                         *)
(* Each method runs to its end without yielding, so each is one action.  A *)
(* method that throws changes nothing and is no action.                    *)
(***************************************************************************)
EXTENDS Escrows, FiniteSets, Functions

CONSTANTS
  Dids,       \* the parties
  Refs,       \* invocation references an escrow is locked for
  MaxSeq,     \* bound: escrows locked
  MaxCredit   \* bound: credit deposited

ASSUME RailAssumption ==
  /\ IsFiniteSet(Dids) /\ Amounts \subseteq Nat
  /\ MaxSeq \in Nat
  /\ MaxCredit \in Nat

VARIABLES
  balances,   \* Map<did, number>; a party without an entry has 0
  seq,        \* number of the last escrow
  deposited,  \* history: credit that came in
  records     \* history: the SettlementRecords the rail has signed

vars == <<balances, escrows, seq, deposited, records>>

(* An escrow is known by the number in "esc-<n>". *)
Ids == 1 .. MaxSeq

Escrow ==
  [status : {"locked", "released", "refunded"},
   payer : Dids, payee : Dids, amount : Amounts, invokeRef : Refs]

Record == [escrowId : Ids, status : {"released", "refunded"}, payee : Dids, amount : Amounts]

TypeOK ==
  /\ balances \in [Dids -> Nat]
  /\ escrows \in [Ids -> Escrow \cup {NoEscrow}]
  /\ seq \in 0 .. MaxSeq
  /\ deposited \in Nat
  /\ records \subseteq Record

Init ==
  /\ balances = [d \in Dids |-> 0]
  /\ escrows = [i \in Ids |-> NoEscrow]
  /\ seq = 0
  /\ deposited = 0
  /\ records = {}

deposit(did, amount) ==
  /\ deposited + amount <= MaxCredit
  /\ balances' = [balances EXCEPT ![did] = @ + amount]
  /\ deposited' = deposited + amount
  /\ UNCHANGED <<escrows, seq, records>>

(* Mutants: the payer is not debited; the payer's balance is not looked at. *)
lockFree(payer, payee, amount, invokeRef) ==
  /\ amount <= balances[payer]
  /\ seq < MaxSeq
  /\ seq' = seq + 1
  /\ escrows' = [escrows EXCEPT ![seq + 1] =
       [status |-> "locked", payer |-> payer, payee |-> payee,
        amount |-> amount, invokeRef |-> invokeRef]]
  /\ UNCHANGED <<balances, deposited, records>>

lockUncovered(payer, payee, amount, invokeRef) ==
  /\ seq < MaxSeq
  /\ balances' = [balances EXCEPT ![payer] = @ - amount]
  /\ seq' = seq + 1
  /\ escrows' = [escrows EXCEPT ![seq + 1] =
       [status |-> "locked", payer |-> payer, payee |-> payee,
        amount |-> amount, invokeRef |-> invokeRef]]
  /\ UNCHANGED <<deposited, records>>

(* An amount of 0 is a lock like any other; only a negative one is refused. *)
lock(payer, payee, amount, invokeRef) ==
  /\ amount <= balances[payer]
  /\ seq < MaxSeq
  /\ balances' = [balances EXCEPT ![payer] = @ - amount]
  /\ seq' = seq + 1
  /\ escrows' = [escrows EXCEPT ![seq + 1] =
       [status |-> "locked", payer |-> payer, payee |-> payee,
        amount |-> amount, invokeRef |-> invokeRef]]
  /\ UNCHANGED <<deposited, records>>

(* Mutant: any escrow that exists can be settled. *)
mustExist(i) == escrows[i].status # "none"

mustLocked(i) == escrows[i].status = "locked"

(* Credit `who`, end the escrow, and sign what happened. *)
settle(i, who, status) ==
  /\ balances' = [balances EXCEPT ![who] = @ + escrows[i].amount]
  /\ escrows' = [escrows EXCEPT ![i].status = status]
  /\ records' = records \cup
       {[escrowId |-> i, status |-> status, payee |-> escrows[i].payee,
         amount |-> escrows[i].amount]}
  /\ UNCHANGED <<seq, deposited>>

release(i) == mustLocked(i) /\ settle(i, escrows[i].payee, "released")

(* Mutant: a refund is credited to the payee. *)
refundToPayee(i) == mustLocked(i) /\ settle(i, escrows[i].payee, "refunded")

refund(i) == mustLocked(i) /\ settle(i, escrows[i].payer, "refunded")

(* What a node asks before it acts: verifyLock(ref, expect). *)
verifyLock(i, payer, payee, minAmount) ==
  /\ escrows[i].status = "locked"
  /\ escrows[i].payer = payer
  /\ escrows[i].payee = payee
  /\ escrows[i].amount >= minAmount

Next ==
  \/ \E d \in Dids, a \in Amounts : deposit(d, a)
  \/ \E p, q \in Dids, a \in Amounts, r \in Refs : lock(p, q, a, r)
  \/ \E i \in Ids : release(i)
  \/ \E i \in Ids : refund(i)

Spec == Init /\ [][Next]_vars

----------------------------------------------------------------------------
(* Properties. *)

Held(i) == IF escrows[i].status = "locked" THEN escrows[i].amount ELSE 0

(* CONSERVATION.  Locking, releasing and refunding neither make nor lose   *)
(* credit: what came in is spendable by somebody or held in an escrow.     *)
Conserved ==
  deposited = SumFunction(balances) + SumFunction([i \in Ids |-> Held(i)])

(* RECORDS ARE FINAL.  A signed record tells how its escrow ended and goes *)
(* on telling the truth: an attestation can rest on it at any later time.  *)
(* So no escrow has two records, and one that was never closed has none.   *)
RecordsTrue ==
  /\ \A r \in records :
       LET e == escrows[r.escrowId] IN
       e.status = r.status /\ e.payee = r.payee /\ e.amount = r.amount
  /\ \A i \in Ids : escrows[i].status \in {"released", "refunded"} =>
       \E r \in records : r.escrowId = i

(* The rail is an EscrowPromise: money put aside once, paid whole once. *)
Abstract == INSTANCE EscrowPromise WITH
  Addr <- Dids, deal <- [i \in Ids |-> Terms(escrows[i])], funds <- balances
ImplementsPromise == Abstract!Spec

=============================================================================
