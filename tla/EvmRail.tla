------------------------------- MODULE EvmRail -------------------------------
(***************************************************************************)
(* packages/settle-evm: paid invocations of one agent over the chain       *)
(* (rail.ts, payments-adapter.ts), seen by the agent's invoke, the nodes'  *)
(* verifyLock and the verifier of attestations.                            *)
(*                                                                         *)
(* The contract is used by what it promises (EscrowPromise, which          *)
(* AlephEscrow is proved to implement), with its deadlines and the token's *)
(* allowance.  A transaction is estimated against the chain as it is when  *)
(* it is sent, which throws if it would revert, and is executed when it is *)
(* mined, against what the chain is then.  waitForTransactionReceipt       *)
(* returns for a reverted transaction too, and gives up after a while on   *)
(* one that is not mined: that one stays in the mempool.                   *)
(***************************************************************************)
EXTENDS Integers

CONSTANTS
  Calls,        \* invocations; each has an escrow id of its own (randomUUID)
  Agent,        \* the payer's address
  Payees,       \* the nodes' payout addresses
  Payee,        \* whom each call pays
  Amount,       \* what each call locks, in token units
  Price,        \* minAmount of the node it calls
  Supply,       \* the agent's tokens
  DeadlineSeconds,
  MaxTime       \* bound: block.timestamp

ASSUME EvmAssumption ==
  /\ Agent \notin Payees
  /\ Payee \in [Calls -> Payees]
  /\ Amount \in [Calls -> Nat \ {0}] /\ Price \in [Calls -> Nat]
  /\ Supply \in Nat /\ DeadlineSeconds \in Nat /\ MaxTime \in Nat

VARIABLES
  deal, funds,  \* the contract's escrows and the token's balances
  deadline,     \* the deadline each call gives its escrow
  allowance,    \* what the contract may still pull from the agent
  now,          \* block.timestamp
  tx,           \* the last transaction each call sent
  at,           \* how far each call got
  outcome,      \* the outcome in its receipt
  record,       \* status of the EvmSettlementRecord it was returned
  attested,     \* calls whose record the chain-reading verifier accepted
  declined,     \* history: escrows their payee gave back
  overlapped    \* history: a call began beside another, or left a transaction behind

chain == <<deal, funds, allowance>>
vars == <<chain, deadline, now, tx, at, outcome, record, attested, declined, overlapped>>

Addr == {Agent} \cup Payees
Chain == INSTANCE EscrowPromise WITH Ids <- Calls, Amounts <- Nat

NoDeal == [status |-> "none"]
NoTx == [kind |-> "none", status |-> "none"]
Tx == [kind : {"approve", "lock", "release", "refund"}, status : {"pending", "success", "reverted"}]

(* threw: invoke threw after the lock was reported; failed: before that. *)
Ended == {"done", "failed", "threw"}
Stages == {"idle", "approve", "approving", "lock", "locking", "locked", "receipt", "settling"} \cup Ended

TypeOK ==
  /\ deal \in [Calls -> {NoDeal} \cup
       [status : {"locked", "released", "refunded"}, payer : {Agent}, payee : Payees, amount : Nat]]
  /\ funds \in [Addr -> Nat] /\ allowance \in Nat
  /\ deadline \in [Calls -> Nat] /\ now \in Nat
  /\ tx \in [Calls -> {NoTx} \cup Tx]
  /\ at \in [Calls -> Stages]
  /\ outcome \in [Calls -> {"none", "success", "failure", "rejected"}]
  /\ record \in [Calls -> {"none", "released", "refunded"}]
  /\ attested \subseteq Calls /\ declined \subseteq Calls
  /\ overlapped \in BOOLEAN

Init ==
  /\ deal = [c \in Calls |-> NoDeal]
  /\ funds = [a \in Addr |-> IF a = Agent THEN Supply ELSE 0]
  /\ allowance = 0 /\ now = 0
  /\ deadline = [c \in Calls |-> 0]
  /\ tx = [c \in Calls |-> NoTx]
  /\ at = [c \in Calls |-> "idle"]
  /\ outcome = [c \in Calls |-> "none"]
  /\ record = [c \in Calls |-> "none"]
  /\ attested = {} /\ declined = {} /\ overlapped = FALSE

----------------------------------------------------------------------------
(* The chain. *)

(* Mutant: the contract takes a refund from the payer at any time. *)
RefundableAnyTime(c) == deal[c].status = "locked"

(* The payer's refund: AlephEscrow.refund. *)
Refundable(c) == deal[c].status = "locked" /\ now >= deadline[c]

(* Whether a transaction of the agent would succeed now, and what it does. *)
Works(c, kind) ==
  CASE kind = "approve" -> TRUE
    [] kind = "lock"    -> deal[c].status = "none" /\ Amount[c] <= allowance /\ Amount[c] <= funds[Agent]
    [] kind = "release" -> deal[c].status = "locked"
    [] kind = "refund"  -> Refundable(c)

Execute(c, kind) ==
  \/ kind = "approve" /\ allowance' = Amount[c] /\ UNCHANGED <<deal, funds>>
  \/ kind = "lock"    /\ allowance' = allowance - Amount[c] /\ Chain!Open(c, Agent, Payee[c], Amount[c])
  \/ kind = "release" /\ UNCHANGED allowance /\ Chain!Pay(c)
  \/ kind = "refund"  /\ UNCHANGED allowance /\ Chain!Return(c)

Mine(c) ==
  /\ tx[c].status = "pending"
  /\ IF Works(c, tx[c].kind)
     THEN Execute(c, tx[c].kind) /\ tx' = [tx EXCEPT ![c].status = "success"]
     ELSE UNCHANGED chain /\ tx' = [tx EXCEPT ![c].status = "reverted"]
  /\ UNCHANGED <<deadline, now, at, outcome, record, attested, declined, overlapped>>

(* A payee returns the money itself. *)
Decline(c) ==
  /\ deal[c].status = "locked"
  /\ Chain!Return(c)
  /\ declined' = declined \cup {c}
  /\ UNCHANGED <<allowance, deadline, now, tx, at, outcome, record, attested, overlapped>>

(* The agent's owner takes the money back after the deadline, by hand: no   *)
(* code does it.                                                           *)
Reclaim(c) ==
  /\ Refundable(c)
  /\ Chain!Return(c)
  /\ UNCHANGED <<allowance, deadline, now, tx, at, outcome, record, attested, declined, overlapped>>

Tick ==
  /\ now < MaxTime
  /\ now' = now + 1
  /\ UNCHANGED <<chain, deadline, tx, at, outcome, record, attested, declined, overlapped>>

----------------------------------------------------------------------------
(* The agent's rail.  Each step ends at an await. *)

Go(c, stage) == at' = [at EXCEPT ![c] = stage]

(* writeContract: estimate, then send. *)
Submit(c, kind, waiting) ==
  /\ Works(c, kind)
  /\ tx' = [tx EXCEPT ![c] = [kind |-> kind, status |-> "pending"]]
  /\ Go(c, waiting)

(* waitForTransactionReceipt returned, with whatever status. *)
Mined(c) == tx[c].status \in {"success", "reverted"}

chainAndNode == <<chain, now, outcome, record, attested, declined>>

UnderWay(c) == at[c] \notin {"idle"} \cup Ended

(* lockEscrow: fix the deadline and read the allowance. *)
Start(c) ==
  /\ at[c] = "idle"
  /\ overlapped' = (overlapped \/ \E d \in Calls : UnderWay(d))
  /\ deadline' = [deadline EXCEPT ![c] = now + DeadlineSeconds]
  /\ Go(c, IF allowance < Amount[c] THEN "approve" ELSE "lock")
  /\ UNCHANGED <<tx, chainAndNode>>

Approve(c) ==
  /\ at[c] = "approve"
  /\ Submit(c, "approve", "approving")
  /\ UNCHANGED <<deadline, overlapped, chainAndNode>>

Approved(c) ==
  /\ at[c] = "approving" /\ Mined(c)
  /\ Go(c, "lock")
  /\ UNCHANGED <<tx, deadline, overlapped, chainAndNode>>

Lock(c) ==
  /\ at[c] = "lock"
  /\ Submit(c, "lock", "locking")
  /\ UNCHANGED <<deadline, overlapped, chainAndNode>>

LockThrows(c) ==
  /\ at[c] = "lock" /\ ~Works(c, "lock")
  /\ Go(c, "failed")
  /\ UNCHANGED <<tx, deadline, overlapped, chainAndNode>>

(* Mutant: reported as soon as it is sent. *)
LockedUnmined(c) ==
  /\ at[c] = "locking"
  /\ Go(c, "locked")
  /\ UNCHANGED <<tx, deadline, overlapped, chainAndNode>>

(* lock returns { id, txHash }, and lockEscrow { ok: true }. *)
Locked(c) ==
  /\ at[c] = "locking" /\ Mined(c)
  /\ Go(c, "locked")
  /\ UNCHANGED <<tx, deadline, overlapped, chainAndNode>>

(* The node's evmPayeeRail. *)
verifyLock(c) ==
  /\ deal[c].status = "locked"
  /\ deal[c].payee = Payee[c]
  /\ deal[c].amount >= Price[c]

(* The node reads the chain, acts, and a verified receipt arrives. *)
Invoke(c) ==
  /\ at[c] = "locked"
  /\ Go(c, "receipt")
  /\ \E o \in {"success", "failure", "rejected"} :
       /\ o # "rejected" => verifyLock(c)
       /\ outcome' = [outcome EXCEPT ![c] = o]
  /\ UNCHANGED <<chain, deadline, now, tx, record, attested, declined, overlapped>>

(* Mutant: released whatever the receipt says. *)
Always(c) == "release"

(* The last step of invoke: releaseEscrow or refundEscrow. *)
Settlement(c) == IF outcome[c] = "success" THEN "release" ELSE "refund"

Settle(c) ==
  /\ at[c] = "receipt"
  /\ Submit(c, Settlement(c), "settling")
  /\ UNCHANGED <<deadline, overlapped, chainAndNode>>

SettleThrows(c) ==
  /\ at[c] = "receipt" /\ ~Works(c, Settlement(c))
  /\ Go(c, "threw")
  /\ UNCHANGED <<tx, deadline, overlapped, chainAndNode>>

(* recordFor: the record says what was asked for. *)
Settled(c) ==
  /\ at[c] = "settling" /\ Mined(c)
  /\ record' = [record EXCEPT ![c] = IF tx[c].kind = "release" THEN "released" ELSE "refunded"]
  /\ Go(c, "done")
  /\ UNCHANGED <<chain, deadline, now, tx, outcome, attested, declined, overlapped>>

(* Waiting for a receipt times out; the transaction may be mined later. *)
TimeOut(c) ==
  /\ at[c] \in {"approving", "locking", "settling"} /\ ~Mined(c)
  /\ Go(c, IF at[c] = "settling" THEN "threw" ELSE "failed")
  /\ overlapped' = TRUE
  /\ UNCHANGED <<tx, deadline, chainAndNode>>

(* Mutant: the status is not compared with the chain's. *)
verifyParties(c) == deal[c].status # "none" /\ record[c] # "none"

(* EvmSettlementRail.verify, re-reading the chain. *)
verify(c) == deal[c].status = record[c]

(* An attestation with a released record is accepted: verifyAttestationOnChain. *)
Attest(c) ==
  /\ record[c] = "released" /\ verify(c)
  /\ attested' = attested \cup {c}
  /\ UNCHANGED <<chain, deadline, now, tx, at, outcome, record, declined, overlapped>>

AgentStep(c) ==
  \/ Start(c) \/ Approve(c) \/ Approved(c) \/ Lock(c) \/ LockThrows(c) \/ Locked(c)
  \/ Invoke(c) \/ Settle(c) \/ SettleThrows(c) \/ Settled(c)

Next ==
  \/ \E c \in Calls : AgentStep(c) \/ TimeOut(c) \/ Mine(c) \/ Decline(c) \/ Reclaim(c) \/ Attest(c)
  \/ Tick

Spec == Init /\ [][Next]_vars

----------------------------------------------------------------------------
(* Properties. *)

(* PAID ON DELIVERY.  Whatever is mined late or twice waited for, money is *)
(* released only for a call whose node answered with a success.            *)
PaidOnDelivery == \A c \in Calls : deal[c].status = "released" => outcome[c] = "success"

(* SERVED IS PAYABLE.  Before the deadline, the work a node did is covered *)
(* by at least its price, unless the node itself gave the money back: no   *)
(* transaction of the agent or its owner, late or concurrent, takes it.    *)
ServedIsPayable ==
  \A c \in Calls : outcome[c] = "success" /\ c \notin declined /\ now < deadline[c] =>
    /\ deal[c].status \in {"locked", "released"}
    /\ deal[c].payee = Payee[c] /\ deal[c].amount >= Price[c]

(* AN ATTESTATION IS PAID FOR.  A record can be wrong, but one that the     *)
(* chain-reading verifier accepted is of a payment that reached the node,  *)
(* and remains so.                                                         *)
AttestedIsPaid == \A c \in attested : deal[c].status = "released" /\ outcome[c] = "success"

(* rail.ts:89: "Ensure the escrow can pull `amount` of the token, then lock *)
(* it": an escrow that lockEscrow reports is, or was, locked on the chain. *)
ReportedIsLocked == \A c \in Calls : at[c] = "locked" => deal[c].status # "none"

(* ALONE, A LOCK IS REAL.  That holds while the agent makes one call at a   *)
(* time and no wait times out: between the estimate of a lock and its      *)
(* mining nothing of the agent spends the allowance or the tokens.         *)
LoneLockIsReal == ~overlapped => ReportedIsLocked

=============================================================================
