---------------------------- MODULE EvmRailProofs ----------------------------
(***************************************************************************)
(* Proofs about EvmRail, for any number of calls, any amounts, prices and  *)
(* deadlines, concurrent or not, with waits that time out.                 *)
(*                                                                         *)
(* A step of a call changes nothing of another call but the allowance and  *)
(* the balances, so the invariant is said call by call.  It ties what is   *)
(* in the mempool and on the chain to what the agent knows: a release is   *)
(* only ever sent with a verified success in hand, and a refund that the   *)
(* payee did not make comes after the deadline.                            *)
(***************************************************************************)
EXTENDS EvmRail, TLAPS

CallInv(c) ==
  /\ at[c] \in {"idle", "approve"} => tx[c] = NoTx
  /\ at[c] = "idle" => deal[c].status = "none"
  /\ outcome[c] # "none" => at[c] \in {"receipt", "settling", "done", "threw"}
  /\ tx[c].kind = "release" => outcome[c] = "success"
  /\ deal[c].status # "none" => deal[c].payee = Payee[c] /\ deal[c].amount = Amount[c]
  /\ deal[c].status = "released" => outcome[c] = "success"
  /\ deal[c].status = "refunded" => c \in declined \/ now >= deadline[c]
  /\ outcome[c] = "success" => deal[c].status # "none" /\ Amount[c] >= Price[c]
  /\ c \in attested => deal[c].status = "released"

Inv == TypeOK /\ \A c \in Calls : CallInv(c)

(* What a step leaves alone when it is not about call d. *)
LEMMA Others ==
  ASSUME NEW d \in Calls, CallInv(d), now \in Nat, now' \in Nat, now <= now', deadline[d] \in Nat,
         at'[d] = at[d], tx'[d] = tx[d], deal'[d] = deal[d], outcome'[d] = outcome[d],
         deadline'[d] = deadline[d], d \in declined <=> d \in declined',
         d \in attested <=> d \in attested'
  PROVE  CallInv(d)'
  BY DEF CallInv

LEMMA InitInv == Init => Inv
<1> SUFFICES ASSUME Init PROVE Inv
  OBVIOUS
<1>1. overlapped \in BOOLEAN
  BY DEF Init
<1>2. TypeOK
  BY <1>1, EvmAssumption DEF Init, TypeOK, NoDeal, NoTx, Addr, Stages, Ended
<1>3. \A c \in Calls : CallInv(c)
  BY EvmAssumption DEF Init, CallInv, NoDeal, NoTx
<1> QED BY <1>2, <1>3 DEF Inv

(* The agent's steps between transactions: the chain is not touched. *)
LEMMA AgentInv ==
  ASSUME Inv, NEW c \in Calls, NEW stage \in Stages \ {"idle", "approve"},
         at' = [at EXCEPT ![c] = stage],
         UNCHANGED <<chainAndNode, deadline>>, overlapped' \in BOOLEAN,
         \/ tx' = tx
         \/ \E kind \in {"approve", "lock", "release", "refund"} :
              /\ tx' = [tx EXCEPT ![c] = [kind |-> kind, status |-> "pending"]]
              /\ kind = "release" => outcome[c] = "success",
         outcome[c] # "none" => stage \in {"receipt", "settling", "done", "threw"}
  PROVE  Inv'
<1>1. tx' \in [Calls -> {NoTx} \cup Tx]
  BY DEF Inv, TypeOK, Tx
<1>2. TypeOK'
  BY <1>1 DEF Inv, TypeOK, chainAndNode, chain
<1>3. CallInv(c)'
  <2>1. CallInv(c) /\ at'[c] = stage /\ (tx'[c].kind = "release" => outcome[c] = "success")
    BY DEF Inv, TypeOK, CallInv
  <2> QED BY <2>1 DEF CallInv, chainAndNode, chain
<1>4. ASSUME NEW d \in Calls, d # c PROVE CallInv(d)'
  BY <1>4, Others DEF Inv, TypeOK, chainAndNode, chain
<1> QED BY <1>2, <1>3, <1>4 DEF Inv

LEMMA StartInv ==
  ASSUME Inv, NEW c \in Calls, Start(c)
  PROVE  Inv'
<1>1. /\ at[c] = "idle" /\ UNCHANGED <<tx, chainAndNode>> /\ overlapped' \in BOOLEAN
      /\ deadline' = [deadline EXCEPT ![c] = now + DeadlineSeconds]
  BY DEF Start, Inv, TypeOK
<1>2. \E stage \in {"approve", "lock"} : at' = [at EXCEPT ![c] = stage]
  BY DEF Start, Go
<1>3. TypeOK'
  BY <1>1, <1>2, EvmAssumption DEF Inv, TypeOK, chainAndNode, chain, Stages
<1>4. CallInv(c)'
  <2>1. CallInv(c) /\ at'[c] \in {"approve", "lock"}
    BY <1>2 DEF Inv, TypeOK
  <2> QED BY <1>1, <2>1 DEF CallInv, chainAndNode, chain
<1>5. ASSUME NEW d \in Calls, d # c PROVE CallInv(d)'
  BY <1>1, <1>2, <1>5, Others DEF Inv, TypeOK, chainAndNode, chain
<1> QED BY <1>3, <1>4, <1>5 DEF Inv

LEMMA AgentStepInv ==
  ASSUME Inv, NEW c \in Calls, AgentStep(c) \/ TimeOut(c), ~Start(c), ~Invoke(c), ~Settled(c)
  PROVE  Inv'
<1> USE DEF Go, Submit, Stages, Ended
<1>0. CallInv(c) /\ overlapped \in BOOLEAN
  BY DEF Inv, TypeOK
<1>1. CASE Approve(c)
  BY <1>0, <1>1, AgentInv DEF Approve, CallInv
<1>2. CASE Approved(c)
  BY <1>0, <1>2, AgentInv DEF Approved, CallInv
<1>3. CASE Lock(c)
  BY <1>0, <1>3, AgentInv DEF Lock, CallInv
<1>4. CASE LockThrows(c)
  BY <1>0, <1>4, AgentInv DEF LockThrows, CallInv
<1>5. CASE Locked(c)
  BY <1>0, <1>5, AgentInv DEF Locked, CallInv
<1>6. CASE Settle(c)
  BY <1>0, <1>6, AgentInv DEF Settle, Settlement, CallInv
<1>7. CASE SettleThrows(c)
  BY <1>0, <1>7, AgentInv DEF SettleThrows, CallInv
<1>8. CASE TimeOut(c)
  BY <1>0, <1>8, AgentInv DEF TimeOut, CallInv
<1> QED BY <1>1, <1>2, <1>3, <1>4, <1>5, <1>6, <1>7, <1>8 DEF AgentStep

(* The node answers with a success only if it saw the escrow locked. *)
LEMMA InvokeInv ==
  ASSUME Inv, NEW c \in Calls, Invoke(c)
  PROVE  Inv'
<1>1. PICK o \in {"success", "failure", "rejected"} :
        (o # "rejected" => verifyLock(c)) /\ outcome' = [outcome EXCEPT ![c] = o]
  BY DEF Invoke
<1>2. /\ at[c] = "locked" /\ at' = [at EXCEPT ![c] = "receipt"]
      /\ UNCHANGED <<chain, deadline, now, tx, record, attested, declined, overlapped>>
  BY DEF Invoke, Go
<1>3. TypeOK'
  BY <1>1, <1>2 DEF Inv, TypeOK, chain, Stages
<1>4. CallInv(c)'
  <2>1. CallInv(c) /\ at'[c] = "receipt" /\ outcome'[c] = o /\ outcome[c] = "none"
    BY <1>1, <1>2 DEF Inv, TypeOK, CallInv
  <2>2. o = "success" => deal[c].status = "locked" /\ deal[c].amount >= Price[c]
    BY <1>1 DEF verifyLock
  <2> QED BY <1>2, <2>1, <2>2 DEF CallInv, chain
<1>5. ASSUME NEW d \in Calls, d # c PROVE CallInv(d)'
  BY <1>1, <1>2, <1>5, Others DEF Inv, TypeOK, chain
<1> QED BY <1>3, <1>4, <1>5 DEF Inv

LEMMA SettledInv ==
  ASSUME Inv, NEW c \in Calls, Settled(c) \/ Attest(c)
  PROVE  Inv'
<1>1. CASE Settled(c)
  <2>1. /\ at[c] = "settling" /\ at' = [at EXCEPT ![c] = "done"]
        /\ record' \in [Calls -> {"none", "released", "refunded"}]
        /\ UNCHANGED <<chain, deadline, now, tx, outcome, attested, declined, overlapped>>
    BY <1>1 DEF Settled, Go, Inv, TypeOK
  <2>2. TypeOK'
    BY <2>1 DEF Inv, TypeOK, chain, Stages, Ended
  <2>3. CallInv(c)'
    <3>1. CallInv(c) /\ at'[c] = "done"
      BY <2>1 DEF Inv, TypeOK
    <3> QED BY <2>1, <3>1 DEF CallInv, chain
  <2>4. ASSUME NEW d \in Calls, d # c PROVE CallInv(d)'
    BY <2>1, <2>4, Others DEF Inv, TypeOK, chain
  <2> QED BY <2>2, <2>3, <2>4 DEF Inv
<1>2. CASE Attest(c)
  <2>1. /\ deal[c].status = "released" /\ attested' = attested \cup {c}
        /\ UNCHANGED <<chain, deadline, now, tx, at, outcome, record, declined, overlapped>>
    BY <1>2 DEF Attest, verify
  <2>2. TypeOK'
    BY <2>1 DEF Inv, TypeOK, chain
  <2>3. CallInv(c)'
    BY <2>1 DEF Inv, CallInv, chain
  <2>4. ASSUME NEW d \in Calls, d # c PROVE CallInv(d)'
    BY <2>1, <2>4, Others DEF Inv, TypeOK, chain
  <2> QED BY <2>2, <2>3, <2>4 DEF Inv
<1> QED BY <1>1, <1>2

(* Returning a locked escrow, by the payee, the owner or the agent. *)
LEMMA ReturnInv ==
  ASSUME Inv, NEW c \in Calls, deal[c].status = "locked", Chain!Return(c),
         UNCHANGED <<allowance, deadline, now, at, outcome, record, attested, overlapped>>,
         tx' \in [Calls -> {NoTx} \cup Tx],
         \A d \in Calls : tx'[d].kind = tx[d].kind /\ (tx[d] = NoTx => tx'[d] = NoTx),
         declined' = declined \cup {c} \/ (declined' = declined /\ now >= deadline[c])
  PROVE  Inv'
<1>1. /\ deal' = [deal EXCEPT ![c].status = "refunded"]
      /\ funds' = [funds EXCEPT ![deal[c].payer] = @ + deal[c].amount]
  BY DEF Chain!Return, Chain!Close
<1>2. TypeOK'
  <2>1. deal[c] \in [status : {"locked", "released", "refunded"}, payer : {Agent}, payee : Payees, amount : Nat]
    BY DEF Inv, TypeOK, NoDeal
  <2>2. deal' \in [Calls -> {NoDeal} \cup
       [status : {"locked", "released", "refunded"}, payer : {Agent}, payee : Payees, amount : Nat]]
    BY <1>1, <2>1 DEF Inv, TypeOK
  <2>3. funds' \in [Addr -> Nat]
    BY <1>1, <2>1 DEF Inv, TypeOK, Addr
  <2> QED BY <2>2, <2>3 DEF Inv, TypeOK
<1>3. CallInv(c)'
  <2>1. /\ deal'[c].status = "refunded" /\ deal'[c].payee = deal[c].payee /\ deal'[c].amount = deal[c].amount
    BY <1>1 DEF Inv, TypeOK, NoDeal
  <2>2. CallInv(c)
    BY DEF Inv
  <2> QED BY <2>1, <2>2 DEF CallInv
<1>4. ASSUME NEW d \in Calls, d # c PROVE CallInv(d)'
  <2>1. CallInv(d) /\ deal'[d] = deal[d]
    BY <1>1, <1>4 DEF Inv, TypeOK
  <2> QED BY <1>4, <2>1 DEF CallInv
<1> QED BY <1>2, <1>3, <1>4 DEF Inv

(* A mined transaction, whenever that is, succeeds only where the contract  *)
(* allows it at that time.                                                 *)
LEMMA MineInv ==
  ASSUME Inv, NEW c \in Calls, Mine(c)
  PROVE  Inv'
<1> PICK kind : kind = tx[c].kind
  OBVIOUS
<1>1. /\ tx[c].status = "pending" /\ UNCHANGED <<deadline, now, at, outcome, record, attested, declined, overlapped>>
      /\ tx[c] \in Tx /\ CallInv(c) /\ at[c] \notin {"idle", "approve"}
  BY DEF Mine, Inv, TypeOK, NoTx, CallInv
<1>2. \E s \in {"success", "reverted"} : tx' = [tx EXCEPT ![c].status = s]
  BY DEF Mine
<1>3. /\ tx' \in [Calls -> {NoTx} \cup Tx]
      /\ \A d \in Calls : tx'[d].kind = tx[d].kind /\ (tx[d] = NoTx => tx'[d] = NoTx)
  BY <1>1, <1>2 DEF Inv, TypeOK, Tx, NoTx
<1>4. CASE UNCHANGED chain
  <2>1. TypeOK'
    BY <1>1, <1>3, <1>4 DEF Inv, TypeOK, chain
  <2>2. ASSUME NEW d \in Calls PROVE CallInv(d)'
    BY <1>1, <1>3, <1>4 DEF Inv, CallInv, chain
  <2> QED BY <2>1, <2>2 DEF Inv
<1>5. CASE Works(c, kind) /\ Execute(c, kind)
  <2>1. CASE kind = "approve"
    <3>1. UNCHANGED <<deal, funds>> /\ allowance' = Amount[c]
      BY <1>5, <2>1 DEF Execute
    <3>2. TypeOK'
      BY <1>1, <1>3, <3>1, EvmAssumption DEF Inv, TypeOK
    <3>3. ASSUME NEW d \in Calls PROVE CallInv(d)'
      BY <1>1, <1>3, <3>1 DEF Inv, CallInv
    <3> QED BY <3>2, <3>3 DEF Inv
  <2>2. CASE kind = "lock"
    <3>1. /\ deal[c].status = "none" /\ Amount[c] <= allowance /\ Amount[c] <= funds[Agent]
          /\ allowance' = allowance - Amount[c]
          /\ deal' = [deal EXCEPT ![c] = [status |-> "locked", payer |-> Agent,
                                          payee |-> Payee[c], amount |-> Amount[c]]]
          /\ funds' = [funds EXCEPT ![Agent] = @ - Amount[c]]
      BY <1>5, <2>2 DEF Works, Execute, Chain!Open
    <3>2. TypeOK'
      <4>1. Amount[c] \in Nat /\ Payee[c] \in Payees /\ allowance \in Nat /\ Agent \in Addr
            /\ funds \in [Addr -> Nat] /\ funds[Agent] \in Nat
        BY EvmAssumption DEF Inv, TypeOK, Addr
      <4>2. funds' \in [Addr -> Nat] /\ allowance' \in Nat
        BY <3>1, <4>1
      <4>3. deal' \in [Calls -> {NoDeal} \cup
          [status : {"locked", "released", "refunded"}, payer : {Agent}, payee : Payees, amount : Nat]]
        BY <3>1, <4>1 DEF Inv, TypeOK
      <4> QED BY <1>1, <1>3, <4>2, <4>3 DEF Inv, TypeOK
    <3>3. CallInv(c)'
      <4>1. deal'[c] = [status |-> "locked", payer |-> Agent, payee |-> Payee[c], amount |-> Amount[c]]
        BY <3>1 DEF Inv, TypeOK
      <4> QED BY <1>1, <1>3, <3>1, <4>1 DEF CallInv
    <3>4. ASSUME NEW d \in Calls, d # c PROVE CallInv(d)'
      <4>1. CallInv(d) /\ deal'[d] = deal[d]
        BY <3>1, <3>4 DEF Inv, TypeOK
      <4> QED BY <1>1, <1>3, <4>1 DEF CallInv
    <3> QED BY <3>2, <3>3, <3>4 DEF Inv
  <2>3. CASE kind = "release"
    <3>1. /\ deal[c].status = "locked" /\ allowance' = allowance
          /\ deal' = [deal EXCEPT ![c].status = "released"]
          /\ funds' = [funds EXCEPT ![deal[c].payee] = @ + deal[c].amount]
      BY <1>5, <2>3 DEF Works, Execute, Chain!Pay, Chain!Close
    <3>2. deal[c] \in [status : {"locked", "released", "refunded"}, payer : {Agent}, payee : Payees, amount : Nat]
      BY <3>1 DEF Inv, TypeOK, NoDeal
    <3>3. TypeOK'
      <4>1. deal' \in [Calls -> {NoDeal} \cup
          [status : {"locked", "released", "refunded"}, payer : {Agent}, payee : Payees, amount : Nat]]
        BY <3>1, <3>2 DEF Inv, TypeOK
      <4>2. funds' \in [Addr -> Nat]
        BY <3>1, <3>2 DEF Inv, TypeOK, Addr
      <4> QED BY <1>1, <1>3, <3>1, <4>1, <4>2 DEF Inv, TypeOK
    <3>4. CallInv(c)'
      <4>1. /\ deal'[c].status = "released" /\ deal'[c].payee = deal[c].payee
            /\ deal'[c].amount = deal[c].amount
        BY <3>1, <3>2 DEF Inv, TypeOK
      <4> QED BY <1>1, <1>3, <2>3, <3>1, <4>1 DEF CallInv
    <3>5. ASSUME NEW d \in Calls, d # c PROVE CallInv(d)'
      <4>1. CallInv(d) /\ deal'[d] = deal[d]
        BY <3>1, <3>5 DEF Inv, TypeOK
      <4> QED BY <1>1, <1>3, <4>1 DEF CallInv
    <3> QED BY <3>3, <3>4, <3>5 DEF Inv
  <2>4. CASE kind = "refund"
    <3>1. deal[c].status = "locked" /\ now >= deadline[c] /\ allowance' = allowance /\ Chain!Return(c)
      BY <1>5, <2>4 DEF Works, Refundable, Execute
    <3> QED BY <1>1, <1>3, <3>1, ReturnInv
  <2> QED BY <1>1, <2>1, <2>2, <2>3, <2>4 DEF Tx
<1> QED BY <1>4, <1>5 DEF Mine

LEMMA NextInv == Inv /\ [Next]_vars => Inv'
<1> SUFFICES ASSUME Inv, [Next]_vars PROVE Inv'
  OBVIOUS
<1>1. ASSUME NEW c \in Calls, AgentStep(c) \/ TimeOut(c) PROVE Inv'
  BY <1>1, StartInv, InvokeInv, SettledInv, AgentStepInv
<1>2. ASSUME NEW c \in Calls, Mine(c) PROVE Inv'
  BY <1>2, MineInv
<1>3. ASSUME NEW c \in Calls, Decline(c) \/ Reclaim(c) PROVE Inv'
  <2>1. tx' = tx /\ tx \in [Calls -> {NoTx} \cup Tx]
    BY <1>3 DEF Decline, Reclaim, Inv, TypeOK
  <2> QED BY <1>3, <2>1, ReturnInv DEF Decline, Reclaim, Refundable
<1>4. ASSUME NEW c \in Calls, Attest(c) PROVE Inv'
  BY <1>4, SettledInv
<1>5. CASE Tick
  <2>1. /\ now' = now + 1 /\ UNCHANGED <<chain, deadline, tx, at, outcome, record, attested, declined, overlapped>>
    BY <1>5 DEF Tick
  <2>2. TypeOK'
    BY <2>1 DEF Inv, TypeOK, chain
  <2>3. ASSUME NEW d \in Calls PROVE CallInv(d)'
    BY <2>1, Others DEF Inv, TypeOK, chain
  <2> QED BY <2>2, <2>3 DEF Inv
<1>6. CASE UNCHANGED vars
  <2>1. TypeOK'
    BY <1>6 DEF Inv, TypeOK, vars, chain
  <2>2. ASSUME NEW d \in Calls PROVE CallInv(d)'
    BY <1>6 DEF Inv, CallInv, vars, chain
  <2> QED BY <2>1, <2>2 DEF Inv
<1> QED BY <1>1, <1>2, <1>3, <1>4, <1>5, <1>6 DEF Next

(* TYPES, for every instance: the chain never pays out more than there is   *)
(* and the adapter is at one of its awaits.                                *)
THEOREM TypeCorrect == Spec => []TypeOK
<1>1. Inv => TypeOK
  BY DEF Inv
<1> QED BY <1>1, InitInv, NextInv, PTL DEF Spec

(* PAID ON DELIVERY, for every instance. *)
THEOREM MoneyFollowsDelivery == Spec => []PaidOnDelivery
<1>1. Inv => PaidOnDelivery
  BY DEF Inv, CallInv, PaidOnDelivery
<1> QED BY <1>1, InitInv, NextInv, PTL DEF Spec

(* SERVED IS PAYABLE, for every instance: the deadline protects the node    *)
(* that served in time from the agent, whatever the agent does.            *)
THEOREM WorkIsCovered == Spec => []ServedIsPayable
<1>1. Inv => ServedIsPayable
  <2> SUFFICES ASSUME Inv, NEW c \in Calls, outcome[c] = "success", c \notin declined, now < deadline[c]
               PROVE  /\ deal[c].status \in {"locked", "released"}
                      /\ deal[c].payee = Payee[c] /\ deal[c].amount >= Price[c]
    BY DEF ServedIsPayable
  <2>1. CallInv(c) /\ now \in Nat /\ deadline[c] \in Nat
    BY DEF Inv, TypeOK
  <2>2. deal[c].status \in {"none", "locked", "released", "refunded"}
    BY DEF Inv, TypeOK, NoDeal
  <2> QED BY <2>1, <2>2 DEF CallInv
<1> QED BY <1>1, InitInv, NextInv, PTL DEF Spec

(* AN ATTESTATION IS PAID FOR, for every instance, although a record alone  *)
(* can be wrong.                                                           *)
THEOREM AttestationsArePaidFor == Spec => []AttestedIsPaid
<1>1. Inv => AttestedIsPaid
  BY DEF Inv, TypeOK, CallInv, AttestedIsPaid
<1> QED BY <1>1, InitInv, NextInv, PTL DEF Spec

----------------------------------------------------------------------------
(* While nothing overlaps, one call at most is under way, only it has a     *)
(* transaction in the mempool, and a lock that was sent can still pay.     *)
Covered(c) == Amount[c] <= allowance /\ Amount[c] <= funds[Agent]

LockSound(c) ==
  /\ tx[c].status = "pending" => at[c] \in {"approving", "locking", "settling"}
  /\ at[c] = "locking" => /\ tx[c].kind = "lock"
                          /\ deal[c].status # "none" \/ (tx[c].status = "pending" /\ Covered(c))
  /\ at[c] = "locked" => deal[c].status # "none"

Solo ==
  /\ \A c, d \in Calls : UnderWay(c) /\ UnderWay(d) => c = d
  /\ \A c \in Calls : LockSound(c)

Lone == ~overlapped => Solo

(* A step of the call under way leaves the other calls where they are. *)
LEMMA AgentSolo ==
  ASSUME Inv, Solo, NEW c \in Calls, UnderWay(c), NEW stage \in Stages,
         at' = [at EXCEPT ![c] = stage],
         UNCHANGED chain,
         \/ tx' = tx
         \/ \E kind \in {"approve", "lock", "release", "refund"} :
              tx' = [tx EXCEPT ![c] = [kind |-> kind, status |-> "pending"]],
         LockSound(c)'
  PROVE  Solo'
<1>1. ASSUME NEW d \in Calls, d # c PROVE at'[d] = at[d] /\ tx'[d] = tx[d]
  BY <1>1 DEF Inv, TypeOK
<1>2. \A d \in Calls : LockSound(d)'
  BY <1>1 DEF Solo, LockSound, Covered, chain
<1>3. \A d, e \in Calls : UnderWay(d)' /\ UnderWay(e)' => d = e
  BY <1>1 DEF Solo, UnderWay
<1> QED BY <1>2, <1>3 DEF Solo

LEMMA AgentStepSolo ==
  ASSUME Inv, Solo, NEW c \in Calls, AgentStep(c), ~Start(c)
  PROVE  Solo'
<1> USE DEF Go, Submit, Stages, Ended, UnderWay, chainAndNode, chain, Mined
<1>0. LockSound(c) /\ tx[c] \in {NoTx} \cup Tx /\ tx \in [Calls -> {NoTx} \cup Tx]
      /\ at \in [Calls -> Stages]
  BY DEF Inv, TypeOK, Solo
<1>1. CASE Approve(c)
  BY <1>0, <1>1, AgentSolo DEF Approve, LockSound
<1>2. CASE Approved(c)
  BY <1>0, <1>2, AgentSolo DEF Approved, LockSound
<1>3. CASE Lock(c)
  BY <1>0, <1>3, AgentSolo DEF Lock, LockSound, Works, Covered
<1>4. CASE LockThrows(c)
  BY <1>0, <1>4, AgentSolo DEF LockThrows, LockSound
<1>5. CASE Locked(c)
  BY <1>0, <1>5, AgentSolo DEF Locked, LockSound
<1>6. CASE Invoke(c)
  BY <1>0, <1>6, AgentSolo DEF Invoke, LockSound
<1>7. CASE Settle(c)
  BY <1>0, <1>7, AgentSolo DEF Settle, Settlement, LockSound
<1>8. CASE SettleThrows(c)
  BY <1>0, <1>8, AgentSolo DEF SettleThrows, LockSound
<1>9. CASE Settled(c)
  BY <1>0, <1>9, AgentSolo DEF Settled, LockSound
<1> QED BY <1>1, <1>2, <1>3, <1>4, <1>5, <1>6, <1>7, <1>8, <1>9 DEF AgentStep

(* The chain's own steps: the one transaction that can be mined is that of  *)
(* the call under way, and the others only give the agent tokens back.     *)
LEMMA MineSolo ==
  ASSUME Inv, Solo, NEW c \in Calls, Mine(c)
  PROVE  Solo'
<1> PICK kind : kind = tx[c].kind
  OBVIOUS
<1>1. /\ tx[c].status = "pending" /\ at' = at /\ tx[c] \in Tx /\ LockSound(c)
      /\ at[c] \in {"approving", "locking", "settling"}
  BY DEF Mine, Inv, TypeOK, NoTx, Solo, LockSound
<1>2. /\ tx'[c].kind = kind /\ tx'[c].status \in {"success", "reverted"}
      /\ \A d \in Calls : d # c => tx'[d] = tx[d]
  BY DEF Mine, Inv, TypeOK, Tx, NoTx
<1>3. ASSUME NEW d \in Calls, d # c PROVE LockSound(d)'
  <2>1. ~UnderWay(d) /\ LockSound(d)
    BY <1>1, <1>3 DEF Solo, UnderWay, Ended
  <2> QED BY <1>1, <1>2, <1>3, <2>1 DEF LockSound, UnderWay, Ended
<1>4. LockSound(c)'
  <2>1. CASE at[c] = "locking"
    <3>1. kind = "lock" /\ (deal[c].status # "none" \/ Works(c, "lock"))
      BY <1>1, <2>1 DEF LockSound, Works, Covered
    <3>2. deal'[c].status # "none"
      <4>1. CASE Works(c, "lock")
        <5>1. deal' = [deal EXCEPT ![c] = [status |-> "locked", payer |-> Agent,
                                           payee |-> Payee[c], amount |-> Amount[c]]]
          BY <3>1, <4>1 DEF Mine, Execute, Chain!Open
        <5> QED BY <5>1 DEF Inv, TypeOK
      <4>2. CASE ~Works(c, "lock")
        BY <3>1, <4>2 DEF Mine, chain
      <4> QED BY <4>1, <4>2
    <3> QED BY <1>1, <1>2, <2>1, <3>1, <3>2 DEF LockSound
  <2>2. CASE at[c] # "locking"
    BY <1>1, <1>2, <2>2 DEF LockSound
  <2> QED BY <2>1, <2>2
<1> QED BY <1>1, <1>3, <1>4 DEF Solo, UnderWay

LEMMA ReturnSolo ==
  ASSUME Inv, Solo, NEW c \in Calls, deal[c].status = "locked", Chain!Return(c),
         UNCHANGED <<allowance, tx, at>>
  PROVE  Solo'
<1>1. /\ deal' = [deal EXCEPT ![c].status = "refunded"]
      /\ funds' = [funds EXCEPT ![deal[c].payer] = @ + deal[c].amount]
  BY DEF Chain!Return, Chain!Close
<1>2. deal[c] \in [status : {"locked", "released", "refunded"}, payer : {Agent}, payee : Payees, amount : Nat]
  BY DEF Inv, TypeOK, NoDeal
<1>3. funds'[Agent] >= funds[Agent]
  BY <1>1, <1>2 DEF Inv, TypeOK, Addr
<1>4. \A d \in Calls : deal[d].status # "none" => deal'[d].status # "none"
  BY <1>1, <1>2 DEF Inv, TypeOK
<1>5. \A d \in Calls : Amount[d] \in Nat
  BY EvmAssumption
<1>6. funds[Agent] \in Nat /\ funds'[Agent] \in Nat
  BY <1>1, <1>2 DEF Inv, TypeOK, Addr
<1>7. ASSUME NEW d \in Calls PROVE LockSound(d)'
  BY <1>3, <1>4, <1>5, <1>6 DEF Solo, LockSound, Covered
<1> QED BY <1>7 DEF Solo, UnderWay

LEMMA StartSolo ==
  ASSUME Inv, Solo, NEW c \in Calls, Start(c), ~overlapped'
  PROVE  Solo'
<1>1. /\ UNCHANGED <<tx, chainAndNode>> /\ at[c] = "idle" /\ tx[c] = NoTx
      /\ \A d \in Calls : ~UnderWay(d)
  BY DEF Start, Inv, CallInv
<1>2. \E stage \in {"approve", "lock"} : at' = [at EXCEPT ![c] = stage]
  BY DEF Start, Go
<1>3. at'[c] \in {"approve", "lock"} /\ \A d \in Calls : d # c => at'[d] = at[d]
  BY <1>2 DEF Inv, TypeOK
<1>4. \A d \in Calls : LockSound(d)'
  BY <1>1, <1>3 DEF Solo, LockSound, Covered, chainAndNode, chain, NoTx
<1>5. \A d \in Calls : UnderWay(d)' => d = c
  BY <1>1, <1>3 DEF UnderWay
<1> QED BY <1>4, <1>5 DEF Solo

LEMMA InitLone == Init => Lone
  BY DEF Init, Lone, Solo, LockSound, UnderWay, NoTx

LEMMA NextLone == Inv /\ Lone /\ [Next]_vars => Lone'
<1> SUFFICES ASSUME Inv, Lone, [Next]_vars, ~overlapped' PROVE Solo'
  BY DEF Lone
<1>0. overlapped => overlapped'
  BY DEF Next, AgentStep, Start, Approve, Approved, Lock, LockThrows, Locked, Invoke, Settle,
         SettleThrows, Settled, TimeOut, Mine, Decline, Reclaim, Attest, Tick, vars
<1>1. Solo
  BY <1>0 DEF Lone
<1>2. ASSUME NEW c \in Calls, AgentStep(c) PROVE Solo'
  BY <1>1, <1>2, StartSolo, AgentStepSolo
<1>3. ASSUME NEW c \in Calls, TimeOut(c) PROVE FALSE
  BY <1>3 DEF TimeOut
<1>4. ASSUME NEW c \in Calls, Mine(c) PROVE Solo'
  BY <1>1, <1>4, MineSolo
<1>5. ASSUME NEW c \in Calls, Decline(c) \/ Reclaim(c) PROVE Solo'
  BY <1>1, <1>5, ReturnSolo DEF Decline, Reclaim, Refundable
<1>6. ASSUME UNCHANGED <<chain, tx, at>> PROVE Solo'
  BY <1>1, <1>6 DEF Solo, LockSound, Covered, UnderWay, chain
<1>7. ASSUME NEW c \in Calls, Attest(c) PROVE Solo'
  BY <1>6, <1>7 DEF Attest
<1>8. CASE Tick
  BY <1>6, <1>8 DEF Tick
<1>9. CASE UNCHANGED vars
  BY <1>6, <1>9 DEF vars
<1> QED BY <1>2, <1>3, <1>4, <1>5, <1>7, <1>8, <1>9 DEF Next

(* ALONE, A LOCK IS REAL, for every instance: with one call at a time and    *)
(* no wait that times out, the unchecked receipt of a lock does no harm.   *)
THEOREM LoneLocksAreReal == Spec => []LoneLockIsReal
<1>1. Lone => LoneLockIsReal
  BY DEF Lone, Solo, LockSound, LoneLockIsReal, ReportedIsLocked
<1> QED BY <1>1, InitInv, NextInv, InitLone, NextLone, PTL DEF Spec

=============================================================================
