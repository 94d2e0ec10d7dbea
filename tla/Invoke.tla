------------------------------- MODULE Invoke -------------------------------
(***************************************************************************)
(* A paid invocation end to end: the agent's invoke                        *)
(* (packages/client/src/client.ts), the node's POST /aleph handler         *)
(* (packages/node/src/node.ts) and the settlement rail they share          *)
(* (SettlementRail), over a network.                                       *)
(*                                                                         *)
(* The agent locks the payment, sends the signed INVOKE, waits for the     *)
(* signed RECEIPT, and releases or refunds.  Each `await` in that, and in  *)
(* the handler, is a point where everybody else may run.  With faults, a   *)
(* request can reach the node twice (a proxy or a pool that retries a POST *)
(* whose connection broke), an answer can be lost, a node can restart      *)
(* with requests under way, and an agent can die.  A message that is lost  *)
(* is one that is never received: nothing forces a step here.              *)
(***************************************************************************)
EXTENDS Integers

CONSTANTS
  Calls,       \* invocations; each makes one envelope, with its own nonce
  Agents, Nodes,
  AgentOf, NodeOf,  \* who calls whom
  Price,       \* priceEur of the capability each node is called for; 0 if free
  Amounts,     \* amounts of credit
  MaxSeq, MaxCredit,  \* bounds of the rail
  MaxCopies,   \* bound: times a request reaches the node
  Persistent   \* whether the node's nonce store survives a restart

ASSUME InvokeAssumption ==
  /\ AgentOf \in [Calls -> Agents] /\ NodeOf \in [Calls -> Nodes]
  /\ Price \in [Nodes -> Nat]
  /\ Amounts \subseteq Nat
  /\ MaxSeq \in Nat /\ MaxCredit \in Nat /\ MaxCopies \in Nat \ {0}
  /\ Persistent \in BOOLEAN

VARIABLES
  payEur,      \* what the caller of each invoke asks it to pay; 0 for nothing
  balances, escrows, seq, deposited, records,  \* the rail
  call,       \* how far each call of invoke got
  ref,        \* its EscrowRef; NoRef before the lock and when nothing is paid
  outcome,    \* the outcome in the receipt it verified
  copies,     \* where each copy of its request is
  replies,    \* HTTP answers on their way to the agents
  nonces,     \* the nonce store of each node, by the call that used the nonce
  acts,       \* history: how often the capability's handler ran
  delivered,  \* history: whether it succeeded
  faulty      \* history: whether anything failed, or a node turned a caller away

rail == <<balances, escrows, seq, deposited, records>>
vars == <<payEur, rail, call, ref, outcome, copies, replies, nonces, acts, delivered, faulty>>

Rail == INSTANCE SettlementRail WITH Dids <- Agents \cup Nodes, Refs <- Calls

NoRef == 0
Copies == 1 .. MaxCopies
Outcomes == {"success", "rejected", "failure"}

(* A signed receipt, or an answer that is not one: a 400 or 500 body, or a *)
(* receipt that does not verify.                                           *)
Reply == [call : Calls, outcome : Outcomes \cup {"error"}]

TypeOK ==
  /\ payEur \in [Calls -> Amounts]
  /\ faulty \in BOOLEAN
  /\ Rail!TypeOK
  /\ call \in [Calls -> {"idle", "locked", "sent", "settling", "done", "threw", "crashed"}]
  /\ ref \in [Calls -> {NoRef} \cup 1 .. MaxSeq]
  /\ outcome \in [Calls -> Outcomes \cup {"none"}]
  /\ copies \in [Calls -> [Copies -> {"none", "wire", "verifying", "acting", "gone"}]]
  /\ replies \subseteq Reply
  /\ nonces \in [Nodes -> SUBSET Calls]
  /\ acts \in [Calls -> Nat]
  /\ delivered \in [Calls -> BOOLEAN]

Init ==
  /\ payEur \in [Calls -> Amounts]
  /\ faulty = FALSE
  /\ Rail!Init
  /\ call = [c \in Calls |-> "idle"]
  /\ ref = [c \in Calls |-> NoRef]
  /\ outcome = [c \in Calls |-> "none"]
  /\ copies = [c \in Calls |-> [k \in Copies |-> "none"]]
  /\ replies = {}
  /\ nonces = [n \in Nodes |-> {}]
  /\ acts = [c \in Calls |-> 0]
  /\ delivered = [c \in Calls |-> FALSE]

----------------------------------------------------------------------------
(* The agent: invoke. *)

node == <<copies, replies, nonces, acts, delivered>>

(* The fiat on-ramp credits an agent. *)
Deposit(a, amount) ==
  /\ Rail!deposit(a, amount)
  /\ UNCHANGED <<payEur, faulty, call, ref, outcome, node>>

(* PAY (lock): lockEscrow, when payEur > 0. *)
Lock(c) ==
  /\ call[c] = "idle" /\ payEur[c] > 0
  /\ Rail!lock(AgentOf[c], NodeOf[c], payEur[c], c)
  /\ call' = [call EXCEPT ![c] = "locked"]
  /\ ref' = [ref EXCEPT ![c] = seq + 1]
  /\ UNCHANGED <<payEur, faulty, outcome, node>>

(* The lock is refused, and invoke throws. *)
LockFails(c) ==
  /\ call[c] = "idle" /\ payEur[c] > balances[AgentOf[c]]
  /\ call' = [call EXCEPT ![c] = "threw"]
  /\ UNCHANGED <<payEur, faulty, rail, ref, outcome, node>>

(* The INVOKE is signed and posted; without payEur that is the first step. *)
Send(c) ==
  /\ call[c] = "locked" \/ (call[c] = "idle" /\ payEur[c] = 0)
  /\ call' = [call EXCEPT ![c] = "sent"]
  /\ copies' = [copies EXCEPT ![c][1] = "wire"]
  /\ UNCHANGED <<payEur, faulty, rail, ref, outcome, replies, nonces, acts, delivered>>

(* PROVE: the answer is a receipt, its signature is good and the node's.  *)
Verify(c, o) ==
  /\ call[c] = "sent"
  /\ [call |-> c, outcome |-> o] \in replies /\ o # "error"
  /\ outcome' = [outcome EXCEPT ![c] = o]
  /\ call' = [call EXCEPT ![c] = IF ref[c] = NoRef THEN "done" ELSE "settling"]
  /\ UNCHANGED <<payEur, faulty, rail, ref, node>>

(* Anything else that arrives makes invoke throw. *)
VerifyFails(c) ==
  /\ call[c] = "sent"
  /\ [call |-> c, outcome |-> "error"] \in replies
  /\ call' = [call EXCEPT ![c] = "threw"]
  /\ UNCHANGED <<payEur, faulty, rail, ref, outcome, node>>

(* Mutant: nothing is refunded. *)
SettleSuccess(c) ==
  /\ call[c] = "settling" /\ outcome[c] = "success"
  /\ Rail!release(ref[c])
  /\ call' = [call EXCEPT ![c] = "done"]
  /\ UNCHANGED <<payEur, faulty, ref, outcome, node>>

(* PAY (settle): release on a success, refund on any other outcome. *)
Settle(c) ==
  /\ call[c] = "settling"
  /\ IF outcome[c] = "success" THEN Rail!release(ref[c]) ELSE Rail!refund(ref[c])
  /\ call' = [call EXCEPT ![c] = "done"]
  /\ UNCHANGED <<payEur, faulty, ref, outcome, node>>

(* Mutant: "no delivery" is taken to be the fetch that rejects, and refunded. *)
FetchFailsRefunded(c) ==
  /\ call[c] = "sent" /\ ref[c] # NoRef
  /\ Rail!refund(ref[c])
  /\ call' = [call EXCEPT ![c] = "threw"]
  /\ faulty' = TRUE
  /\ UNCHANGED <<payEur, ref, outcome, node>>

(* No answer: the fetch rejects, whatever the node did or will do. *)
FetchFails(c) ==
  /\ call[c] = "sent"
  /\ call' = [call EXCEPT ![c] = "threw"]
  /\ faulty' = TRUE
  /\ UNCHANGED <<payEur, rail, ref, outcome, node>>

(* The agent's process dies in the middle of invoke. *)
AgentDies(c) ==
  /\ call[c] \in {"locked", "sent", "settling"}
  /\ call' = [call EXCEPT ![c] = "crashed"]
  /\ faulty' = TRUE
  /\ UNCHANGED <<payEur, rail, ref, outcome, node>>

----------------------------------------------------------------------------
(* The network repeats a request that was sent. *)
Repeat(c, k) ==
  /\ copies[c][1] # "none" /\ copies[c][k] = "none"
  /\ copies' = [copies EXCEPT ![c][k] = "wire"]
  /\ faulty' = TRUE
  /\ UNCHANGED <<payEur, rail, call, ref, outcome, replies, nonces, acts, delivered>>

----------------------------------------------------------------------------
(* The node: POST /aleph.  A copy is answered once and is then gone. *)

agent == <<payEur, call, ref, outcome>>

AnswerWith(c, k, o) ==
  /\ copies' = [copies EXCEPT ![c][k] = "gone"]
  /\ replies' = replies \cup {[call |-> c, outcome |-> o]}

Continue(c, k, where) ==
  /\ copies' = [copies EXCEPT ![c][k] = where]
  /\ UNCHANGED replies

(* Mutant: the nonce is recorded and not looked up. *)
FirstSeenAlways(c) == nonces' = [nonces EXCEPT ![NodeOf[c]] = @ \cup {c}]

(* verifyReceived: the nonce is consumed before anything else is checked. *)
FirstSeen(c) ==
  /\ c \notin nonces[NodeOf[c]]
  /\ nonces' = [nonces EXCEPT ![NodeOf[c]] = @ \cup {c}]

Replayed(c, k) ==
  /\ copies[c][k] = "wire"
  /\ c \in nonces[NodeOf[c]]
  /\ AnswerWith(c, k, "error")
  /\ UNCHANGED <<faulty, rail, agent, nonces, acts, delivered>>

(* Turned away with a 429, a 400 or a 500 that no receipt comes with: the  *)
(* per-IP limit, a clock out of step, or a nonce store that fails, having  *)
(* recorded the nonce or not.                                              *)
TurnAway(c, k) ==
  /\ copies[c][k] = "wire"
  /\ nonces' = nonces \/ nonces' = [nonces EXCEPT ![NodeOf[c]] = @ \cup {c}]
  /\ AnswerWith(c, k, "error")
  /\ faulty' = TRUE
  /\ UNCHANGED <<rail, agent, acts, delivered>>

(* Refused before payment is looked at: per-DID limit, complexity,        *)
(* capability, grant, input schema; or priced and without a payment.       *)
Refuse(c, k) ==
  /\ copies[c][k] = "wire"
  /\ FirstSeen(c)
  /\ AnswerWith(c, k, "rejected")
  /\ UNCHANGED <<faulty, rail, agent, acts, delivered>>

(* All of that is in order: a priced capability awaits verifyLock. *)
Admit(c, k) ==
  /\ copies[c][k] = "wire"
  /\ FirstSeen(c)
  /\ Price[NodeOf[c]] > 0 => ref[c] # NoRef
  /\ Continue(c, k, IF Price[NodeOf[c]] > 0 THEN "verifying" ELSE "acting")
  /\ UNCHANGED <<faulty, rail, agent, acts, delivered>>

(* Mutant: the amount is not compared with the price. *)
LockIsGoodAnyAmount(c) == Rail!verifyLock(ref[c], AgentOf[c], NodeOf[c], 0)

LockIsGood(c) == Rail!verifyLock(ref[c], AgentOf[c], NodeOf[c], Price[NodeOf[c]])

VerifyLock(c, k) ==
  /\ copies[c][k] = "verifying"
  /\ IF LockIsGood(c) THEN Continue(c, k, "acting") ELSE AnswerWith(c, k, "rejected")
  /\ UNCHANGED <<faulty, rail, agent, nonces, acts, delivered>>

(* ACT: the handler runs, and its outcome is signed into the RECEIPT. *)
Act(c, k, o) ==
  /\ copies[c][k] = "acting"
  /\ acts' = [acts EXCEPT ![c] = @ + 1]
  /\ delivered' = [delivered EXCEPT ![c] = @ \/ o = "success"]
  /\ AnswerWith(c, k, o)
  /\ UNCHANGED <<faulty, rail, agent, nonces>>

(* A restart loses the requests under way, and the nonces unless a store   *)
(* of @aleph/store keeps them.                                             *)
Restart(n) ==
  /\ copies' = [c \in Calls |-> [k \in Copies |->
       IF NodeOf[c] = n /\ copies[c][k] \in {"verifying", "acting"} THEN "gone" ELSE copies[c][k]]]
  /\ nonces' = IF Persistent THEN nonces ELSE [nonces EXCEPT ![n] = {}]
  /\ faulty' = TRUE
  /\ UNCHANGED <<rail, agent, replies, acts, delivered>>

----------------------------------------------------------------------------

AgentStep(c) ==
  \/ Lock(c) \/ LockFails(c) \/ Send(c)
  \/ \E o \in Outcomes : Verify(c, o)
  \/ VerifyFails(c) \/ Settle(c)

NodeStep(c, k) ==
  \/ Replayed(c, k) \/ TurnAway(c, k) \/ Refuse(c, k) \/ Admit(c, k) \/ VerifyLock(c, k)
  \/ \E o \in {"success", "failure"} : Act(c, k, o)

Next ==
  \/ \E a \in Agents, amount \in Amounts : Deposit(a, amount)
  \/ \E c \in Calls : AgentStep(c) \/ FetchFails(c) \/ AgentDies(c)
  \/ \E c \in Calls, k \in Copies : NodeStep(c, k) \/ Repeat(c, k)
  \/ \E n \in Nodes : Restart(n)

Spec == Init /\ [][Next]_vars

(* An agent that started goes on, and so does a node that has a request:   *)
(* their event loops run every callback that is due.                       *)
FairSpec ==
  /\ Spec
  /\ \A c \in Calls : WF_vars(AgentStep(c))
  /\ \A c \in Calls, k \in Copies : WF_vars(NodeStep(c, k))

----------------------------------------------------------------------------
(* Properties. *)

Priced == {c \in Calls : Price[NodeOf[c]] > 0}

(* FAIR EXCHANGE.  With a nonce store that survives restarts, and whatever *)
(* is lost, repeated or interrupted, a priced invocation is a              *)
(* FairExchange: no work without money set aside, none twice, no payment   *)
(* for work not done, no refund of work that was.                          *)
Money(c) ==
  IF ref[c] = NoRef THEN "unpaid"
  ELSE CASE escrows[ref[c]].status = "locked"   -> "held"
         [] escrows[ref[c]].status = "released" -> "paid"
         [] escrows[ref[c]].status = "refunded" -> "returned"

Exchange == INSTANCE FairExchange WITH
  Calls <- Priced,
  money <- [c \in Priced |-> Money(c)],
  served <- [c \in Priced |-> delivered[c]]
IsFairExchange == Exchange!Spec

(* AT MOST ONE RUN.  A capability may be irreversible: no request makes    *)
(* its handler run twice, not even one that failed the first time.         *)
RunsOnce == \A c \in Calls : acts[c] <= 1

(* PAID IN FULL.  A node that delivered and whose agent finished has been  *)
(* paid at least its price: verifyLock saw that lock and nobody moved it.  *)
PaidInFull ==
  \A c \in Priced : delivered[c] /\ call[c] = "done" =>
    /\ escrows[ref[c]].status = "released"
    /\ escrows[ref[c]].payee = NodeOf[c]
    /\ escrows[ref[c]].amount >= Price[NodeOf[c]]

(* NOTHING HANGS.  Unless something fails, an invocation that locked its   *)
(* payment ends with the payment released or refunded.                     *)
Closed(c) == ref[c] # NoRef /\ escrows[ref[c]].status # "locked"
LockedIsSettled == \A c \in Calls : call[c] = "locked" ~> faulty \/ (call[c] = "done" /\ Closed(c))

=============================================================================
