---------------------------- MODULE AlephEscrow ----------------------------
(***************************************************************************)
(* contracts/src/AlephEscrow.sol: the on-chain escrow, with the token it   *)
(* calls out to.                                                           *)
(*                                                                         *)
(* A call of the contract is not atomic: it updates the escrow first       *)
(* ("effects"), then calls the token ("interaction"), and the token or the *)
(* recipient's hook may call the contract again before it returns.  So a   *)
(* call is a frame on a stack: Lock / Release / Refund push one, the token *)
(* moves the money or refuses, Return pops it.  A call that fails restores *)
(* what the contract and the token held when it was made.                  *)
(*                                                                         *)
(* The contract never calls itself, but it may be named as a payee, and it *)
(* may be sent tokens like any address.  No escrow accounts for what it    *)
(* gets either way and nobody can claim it: stray keeps count.             *)
(***************************************************************************)
EXTENDS Escrows, Sequences, FiniteSets, Functions

CONSTANTS
  ContractIds, \* escrow ids (bytes32, chosen by the caller)
  Addr,        \* addresses that call the contract
  Contract,    \* the address of the contract itself
  Blocked,     \* addresses the token will not pay, or whose hook rejects a payment
  Supply,      \* tokens each address starts with
  Deadlines,   \* deadlines asked for in lock
  MaxTime,     \* bound: block.timestamp stops here
  MaxDepth     \* bound: nested calls

ASSUME EscrowAssumption ==
  /\ IsFiniteSet(ContractIds)
  /\ Contract \notin Addr
  /\ Blocked \subseteq Addr
  /\ Supply \in [Addr -> Nat]
  /\ Amounts \subseteq Nat
  /\ Deadlines \subseteq Nat
  /\ MaxTime \in Nat
  /\ MaxDepth \in Nat

VARIABLES
  balance,  \* the token's balances
  entered,  \* the ReentrancyGuard flag
  frames,   \* the calls under way, the innermost last
  now,      \* block.timestamp
  stray     \* history: tokens the contract was paid or sent for itself

contractVars == <<escrows, balance, entered, frames, now, stray>>

----------------------------------------------------------------------------

Accounts == Addr \cup {Contract}

ContractEscrow ==
  [status : {"locked", "released", "refunded"},
   payer : Addr, payee : Accounts, amount : Amounts, deadline : Deadlines]

(* What a revert brings back. *)
Snapshot ==
  [escrows : [ContractIds -> ContractEscrow \cup {NoEscrow}], balance : [Accounts -> Nat],
   entered : BOOLEAN, stray : Nat]

(* A call that has made its effects and is waiting for the token. *)
Frame ==
  [id : ContractIds, caller : Addr, from : Accounts, to : Accounts, amount : Amounts,
   moved : BOOLEAN, before : Snapshot]

ContractTypeOK ==
  /\ escrows \in [ContractIds -> ContractEscrow \cup {NoEscrow}]
  /\ balance \in [Accounts -> Nat]
  /\ entered \in BOOLEAN
  /\ frames \in Seq(Frame)
  /\ now \in Nat /\ stray \in Nat

ContractInit ==
  /\ escrows = [i \in ContractIds |-> NoEscrow]
  /\ balance = [a \in Accounts |-> IF a = Contract THEN 0 ELSE Supply[a]]
  /\ entered = FALSE
  /\ frames = <<>>
  /\ now = 0 /\ stray = 0

----------------------------------------------------------------------------
(* The contract. *)

(* Mutant: the guard is set and never looked at. *)
NonReentrantUnchecked == entered' = TRUE

(* The modifier nonReentrant, on the way in. *)
NonReentrant ==
  /\ ~entered
  /\ entered' = TRUE

(* The interaction of a call: ask the token to move `amount`. *)
AskToken(i, caller, from, to, amount) ==
  /\ Len(frames) < MaxDepth
  /\ frames' = Append(frames,
       [id |-> i, caller |-> caller, from |-> from, to |-> to, amount |-> amount, moved |-> FALSE,
        before |-> [escrows |-> escrows, balance |-> balance, entered |-> entered, stray |-> stray]])
  /\ UNCHANGED <<balance, now, stray>>

(* Any payee will do, the contract itself included. *)
Lock(i, sender, payee, amount, deadline) ==
  /\ NonReentrant
  /\ escrows[i].status = "none"
  /\ amount # 0
  /\ escrows' = [escrows EXCEPT ![i] =
       [status |-> "locked", payer |-> sender, payee |-> payee,
        amount |-> amount, deadline |-> deadline]]
  /\ AskToken(i, sender, sender, Contract, amount)

(* Mutant: the released money goes back to the caller. *)
ReleaseToSender(i, sender) ==
  /\ NonReentrant
  /\ escrows[i].status = "locked"
  /\ sender = escrows[i].payer
  /\ escrows' = [escrows EXCEPT ![i].status = "released"]
  /\ AskToken(i, sender, Contract, sender, escrows[i].amount)

Release(i, sender) ==
  /\ NonReentrant
  /\ escrows[i].status = "locked"
  /\ sender = escrows[i].payer
  /\ escrows' = [escrows EXCEPT ![i].status = "released"]
  /\ AskToken(i, sender, Contract, escrows[i].payee, escrows[i].amount)

(* Mutants: the deadline is not looked at; only the payee may refund. *)
MayRefundAnyTime(e, sender) == sender \in {e.payer, e.payee}
MayRefundPayeeOnly(e, sender) == sender = e.payee

MayRefund(e, sender) ==
  /\ now >= e.deadline \/ sender = e.payee
  /\ sender = e.payer \/ sender = e.payee

Refund(i, sender) ==
  /\ NonReentrant
  /\ escrows[i].status = "locked"
  /\ MayRefund(escrows[i], sender)
  /\ escrows' = [escrows EXCEPT ![i].status = "refunded"]
  /\ AskToken(i, sender, Contract, escrows[i].payer, escrows[i].amount)

----------------------------------------------------------------------------
(* The token, and the end of a call. *)

Top == frames[Len(frames)]
Pop == SubSeq(frames, 1, Len(frames) - 1)

(* Mutant: the token does not look at the balance. *)
TokenAcceptsAny == Top.to \notin Blocked

TokenAccepts == Top.amount <= balance[Top.from] /\ Top.to \notin Blocked

(* The token moves the money.  It may hand control to the recipient before *)
(* it returns: the frame stays on the stack.                               *)
TokenMoves ==
  /\ frames # <<>> /\ ~Top.moved
  /\ TokenAccepts
  /\ balance' = [balance EXCEPT ![Top.from] = @ - Top.amount, ![Top.to] = @ + Top.amount]
  /\ frames' = [frames EXCEPT ![Len(frames)].moved = TRUE]
  /\ stray' = IF Top.from = Top.to THEN stray + Top.amount ELSE stray
  /\ UNCHANGED <<escrows, entered, now>>

(* Mutant: transfer without SafeERC20; a refusal is not noticed. *)
TokenRefusesQuietly ==
  /\ frames # <<>> /\ ~Top.moved
  /\ ~TokenAccepts
  /\ entered' = FALSE
  /\ frames' = Pop
  /\ UNCHANGED <<escrows, balance, now, stray>>

(* SafeERC20 reverts when the token refuses, and with it the whole call. *)
TokenRefuses ==
  /\ frames # <<>> /\ ~Top.moved
  /\ ~TokenAccepts
  /\ escrows' = Top.before.escrows
  /\ balance' = Top.before.balance
  /\ entered' = Top.before.entered
  /\ stray' = Top.before.stray
  /\ frames' = Pop
  /\ UNCHANGED now

(* The call returns: nonReentrant, on the way out. *)
Return ==
  /\ frames # <<>> /\ Top.moved
  /\ entered' = FALSE
  /\ frames' = Pop
  /\ UNCHANGED <<escrows, balance, now, stray>>

(* A holder transfers tokens to the contract's address without calling the *)
(* contract, which does not notice.  Where a hook does so in the middle of *)
(* a call, it comes to the same as before or after the call.               *)
Send(from, amount) ==
  /\ frames = <<>>
  /\ amount <= balance[from]
  /\ balance' = [balance EXCEPT ![from] = @ - amount, ![Contract] = @ + amount]
  /\ stray' = stray + amount
  /\ UNCHANGED <<escrows, entered, frames, now>>

(* A new block.  block.timestamp does not change inside a transaction. *)
Tick ==
  /\ frames = <<>>
  /\ now < MaxTime
  /\ now' = now + 1
  /\ UNCHANGED <<escrows, balance, entered, frames, stray>>

ContractNext ==
  \/ \E i \in ContractIds, s \in Addr, p \in Accounts, a \in Amounts, d \in Deadlines : Lock(i, s, p, a, d)
  \/ \E i \in ContractIds, s \in Addr : Release(i, s)
  \/ \E i \in ContractIds, s \in Addr : Refund(i, s)
  \/ TokenMoves
  \/ TokenRefuses
  \/ Return
  \/ \E from \in Addr, a \in Amounts : Send(from, a)
  \/ Tick

ContractSpec == ContractInit /\ [][ContractNext]_contractVars

(* The payer keeps asking for its money back once the deadline passed. *)
PayerRefund(i) == escrows[i].status = "locked" /\ Refund(i, escrows[i].payer)

(* Time passes however many calls a block holds, a call that started ends, *)
(* and a payer's refund is not kept out of the blocks forever.             *)
FairSpec ==
  /\ ContractSpec
  /\ SF_contractVars(Tick)
  /\ WF_contractVars(TokenMoves \/ TokenRefuses \/ Return)
  /\ \A i \in ContractIds : SF_contractVars(PayerRefund(i))

----------------------------------------------------------------------------
(* Properties. *)

(* What a call in flight may have done so far: it touched its own escrow    *)
(* only, one of the three operations allows what it did there, and the     *)
(* money is either where it was or where the call sent it.                 *)
CallOK(f) ==
  LET b == f.before.escrows[f.id]
      e == escrows[f.id]
  IN  /\ f.before.entered = FALSE
      /\ escrows = [f.before.escrows EXCEPT ![f.id] = e]
      /\ f.moved => /\ f.amount <= f.before.balance[f.from]
                    /\ balance = [f.before.balance EXCEPT ![f.from] = @ - f.amount,
                                                         ![f.to] = @ + f.amount]
                    /\ stray = f.before.stray + (IF f.from = f.to THEN f.amount ELSE 0)
      /\ ~f.moved => balance = f.before.balance /\ stray = f.before.stray
      /\ \/ /\ b.status = "none" /\ e.status = "locked" /\ e.payer = f.caller
            /\ f.amount = e.amount /\ f.from = f.caller /\ f.to = Contract
         \/ /\ b.status = "locked" /\ e = [b EXCEPT !.status = "released"] /\ f.caller = b.payer
            /\ f.amount = b.amount /\ f.from = Contract /\ f.to = b.payee
         \/ /\ b.status = "locked" /\ e = [b EXCEPT !.status = "refunded"] /\ MayRefund(b, f.caller)
            /\ f.amount = b.amount /\ f.from = Contract /\ f.to = b.payer

(* ONE CALL AT A TIME.  The token and the hooks run in the middle of a      *)
(* call; whatever they call, nothing but the call under way has touched    *)
(* the contract since it began (nonReentrant, Reentrancy.t.sol).           *)
OneCall ==
  /\ Len(frames) \in {0, 1}
  /\ entered <=> frames # <<>>
  /\ \A k \in DOMAIN frames : CallOK(frames[k])

(* What an escrow is worth to the contract: its amount while it is locked, *)
(* and while the token has not moved the money of the call that locks it   *)
(* (not there yet) or closes it (not gone yet).                            *)
Owed(i) ==
  LET pending == {k \in DOMAIN frames : frames[k].id = i /\ ~frames[k].moved}
      locked  == IF escrows[i].status = "locked" THEN escrows[i].amount ELSE 0
  IN  IF pending = {} THEN locked ELSE IF locked > 0 THEN 0 ELSE escrows[i].amount

(* SOLVENCY.  At every point of every call the contract holds what it owes *)
(* and what it was sent for itself, no more and no less: one escrow is     *)
(* never paid with another one's tokens, and the only tokens left in the   *)
(* contract with nobody to claim them are those somebody sent there, with  *)
(* a transfer or as the payee of an escrow.                                *)
Solvent == balance[Contract] = SumFunction([i \in ContractIds |-> Owed(i)]) + stray

(* What the parties see: the state the last finished call left.  As a      *)
(* party, the contract has what it was sent for itself.                    *)
Committed ==
  IF frames = <<>> THEN escrows ELSE frames[1].before.escrows
FundsOf(held, own) == [a \in Accounts |-> IF a = Contract THEN own ELSE held[a]]
CommittedFunds ==
  IF frames = <<>> THEN FundsOf(balance, stray)
  ELSE FundsOf(frames[1].before.balance, frames[1].before.stray)

(* AUTHORITY.  Money only leaves an escrow to the payee in a call the payer *)
(* made, and only returns to the payer in a call the payee made, or the     *)
(* payer made at or after the deadline: release, refund.                    *)
SettlementAuthorised ==
  [][\A i \in ContractIds : Committed[i].status = "locked" /\ Committed'[i].status # "locked" =>
        LET e == Committed[i] caller == frames[1].caller IN
        IF Committed'[i].status = "released" THEN caller = e.payer
        ELSE caller = e.payee \/ (caller = e.payer /\ now >= e.deadline)]_contractVars

(* ATOMICITY.  Whatever the token and the hooks do in the middle of a call, *)
(* the parties see an escrow that opens, pays or returns in one step.       *)
CommittedDeals == [i \in ContractIds |-> Terms(Committed[i])]

ContractPromise == INSTANCE EscrowPromise WITH
  Ids <- ContractIds, Addr <- Accounts, deal <- CommittedDeals, funds <- CommittedFunds
ContractImplementsPromise == ContractPromise!TokenSpec

(* NO LOCKED FUNDS.  An escrow whose payer the token will pay, and whose   *)
(* deadline comes, does not stay locked: a payee that vanished, or that    *)
(* the token refuses to pay, cannot hold the payer's money.                *)
NeverStuck ==
  \A i \in ContractIds :
    (/\ frames = <<>> /\ escrows[i].status = "locked"
     /\ escrows[i].payer \notin Blocked /\ escrows[i].deadline <= MaxTime)
      ~> (frames = <<>> /\ escrows[i].status # "locked")

=============================================================================
