---------------------------- MODULE InvokeProofs ----------------------------
(***************************************************************************)
(* Proofs about Invoke, for every set of calls, agents and nodes, any      *)
(* prices and offers, any number of repeated requests, and a nonce store   *)
(* that survives restarts.                                                 *)
(*                                                                         *)
(* The invariant has an agent's half and a node's half.  The agent's half  *)
(* ties the escrow of a call to how far the call got: it stays locked      *)
(* until a verified receipt decides about it.  The node's half ties the    *)
(* nonce to the work: while a copy of a request is being served, the nonce *)
(* is in the store, no other copy is being served, nothing was done and no *)
(* receipt exists.  Together they exclude that a refund meets work that    *)
(* was done, or is about to be.                                            *)
(***************************************************************************)
EXTENDS Invoke, TLAPS

Signed(c) == {r \in replies : r.call = c /\ r.outcome # "error"}
Busy(c)   == {k \in Copies : copies[c][k] \in {"verifying", "acting"}}

(* The agent's half. *)
AgentInv(c) ==
  /\ call[c] = "idle" => ref[c] = NoRef
  /\ call[c] = "settling" => ref[c] # NoRef /\ outcome[c] # "none"
  /\ outcome[c] # "none" => [call |-> c, outcome |-> outcome[c]] \in replies
  /\ ref[c] # NoRef =>
       /\ ref[c] <= seq
       /\ escrows[ref[c]].status \in {"locked", "released", "refunded"}
       /\ escrows[ref[c]].invokeRef = c
       /\ escrows[ref[c]].payee = NodeOf[c]
       /\ escrows[ref[c]].amount = payEur[c]
       /\ escrows[ref[c]].status = "locked" => call[c] # "done"
       /\ escrows[ref[c]].status = "released" => call[c] = "done" /\ outcome[c] = "success"
       /\ escrows[ref[c]].status = "refunded" => call[c] = "done" /\ outcome[c] \in {"rejected", "failure"}

(* The node's half. *)
NodeInv(c) ==
  /\ c \notin nonces[NodeOf[c]] => acts[c] = 0 /\ Busy(c) = {} /\ Signed(c) = {}
  /\ \A k \in Busy(c) : acts[c] = 0 /\ Signed(c) = {} /\ Busy(c) = {k}
  /\ acts[c] <= 1
  /\ acts[c] = 0 => ~delivered[c]
  /\ [call |-> c, outcome |-> "success"] \in replies => delivered[c]
  /\ \A o \in {"rejected", "failure"} : [call |-> c, outcome |-> o] \in replies => ~delivered[c]
  /\ c \in Priced =>
       /\ \A k \in Busy(c) : ref[c] # NoRef
       /\ \A k \in Copies : copies[c][k] = "acting" => payEur[c] >= Price[NodeOf[c]]
       /\ delivered[c] => ref[c] # NoRef /\ payEur[c] >= Price[NodeOf[c]]

TypeInv ==
  /\ payEur \in [Calls -> Amounts]
  /\ escrows \in [Rail!Ids -> Rail!Escrow \cup {Rail!NoEscrow}]
  /\ seq \in 0 .. MaxSeq
  /\ call \in [Calls -> {"idle", "locked", "sent", "settling", "done", "threw", "crashed"}]
  /\ ref \in [Calls -> {NoRef} \cup 1 .. MaxSeq]
  /\ outcome \in [Calls -> Outcomes \cup {"none"}]
  /\ copies \in [Calls -> [Copies -> {"none", "wire", "verifying", "acting", "gone"}]]
  /\ replies \subseteq Reply
  /\ nonces \in [Nodes -> SUBSET Calls]
  /\ acts \in [Calls -> Nat]
  /\ delivered \in [Calls -> BOOLEAN]

Inv == TypeInv /\ \A c \in Calls : AgentInv(c) /\ NodeInv(c)

----------------------------------------------------------------------------
(* The two halves are kept by steps that do not concern them. *)

LEMMA AgentInvKeep ==
  ASSUME payEur' = payEur, NEW c \in Calls, AgentInv(c),
         call'[c] = call[c], ref'[c] = ref[c], outcome'[c] = outcome[c],
         ref[c] # NoRef => escrows'[ref[c]] = escrows[ref[c]],
         seq \in Nat, seq' \in Nat, seq <= seq', ref[c] \in Nat, replies \subseteq replies'
  PROVE  AgentInv(c)'
<1>1. ref[c] <= seq => ref[c] <= seq'
  OBVIOUS
<1> QED BY <1>1 DEF AgentInv, NoRef

LEMMA NodeInvKeep ==
  ASSUME payEur' = payEur, NEW c \in Calls, NodeInv(c),
         \A k \in Copies : copies'[c][k] = copies[c][k] \/ copies'[c][k] \in {"none", "wire", "gone"},
         ref[c] # NoRef => ref'[c] # NoRef,
         \A o \in Outcomes : [call |-> c, outcome |-> o] \in replies'
                              => [call |-> c, outcome |-> o] \in replies,
         Signed(c)' \subseteq Signed(c),
         nonces[NodeOf[c]] \subseteq nonces'[NodeOf[c]], acts'[c] = acts[c], delivered'[c] = delivered[c]
  PROVE  NodeInv(c)'
<1>1. Busy(c)' \subseteq Busy(c)
  BY DEF Busy
<1>2. \A k \in Copies : copies'[c][k] = "acting" => copies[c][k] = "acting"
  OBVIOUS
<1>3. \A k \in Busy(c)' : Busy(c)' = {k}
  BY <1>1 DEF NodeInv
<1> QED BY <1>1, <1>2, <1>3 DEF NodeInv, Outcomes

LEMMA InitInv == Init => Inv
<1> SUFFICES ASSUME Init PROVE Inv
  OBVIOUS
<1>1. TypeInv
  BY InvokeAssumption DEF Init, TypeInv, Rail!Init, NoRef, Reply
<1>2. ASSUME NEW c \in Calls PROVE AgentInv(c)
  BY DEF Init, AgentInv
<1>3. ASSUME NEW c \in Calls PROVE NodeInv(c)
  <2>1. Busy(c) = {} /\ Signed(c) = {}
    BY DEF Init, Busy, Signed
  <2> QED BY <2>1 DEF Init, NodeInv
<1> QED BY <1>1, <1>2, <1>3 DEF Inv

----------------------------------------------------------------------------
(* The agent's steps. *)

LEMMA DepositInv ==
  ASSUME payEur' = payEur, Inv, NEW a \in Agents, NEW amount \in Amounts, Deposit(a, amount)
  PROVE  Inv'
<1>1. escrows' = escrows /\ seq' = seq /\ UNCHANGED <<call, ref, outcome, node>>
  BY DEF Deposit, Rail!deposit
<1>2. TypeInv'
  BY <1>1 DEF Inv, TypeInv, node
<1>3. ASSUME NEW c \in Calls PROVE AgentInv(c)'
  BY <1>1 DEF Inv, AgentInv, node
<1>4. ASSUME NEW c \in Calls PROVE NodeInv(c)'
  BY <1>1 DEF Inv, NodeInv, Busy, Signed, node
<1> QED BY <1>2, <1>3, <1>4 DEF Inv

LEMMA LockInv ==
  ASSUME payEur' = payEur, Inv, NEW c \in Calls, Lock(c)
  PROVE  Inv'
<1> DEFINE e == [status |-> "locked", payer |-> AgentOf[c], payee |-> NodeOf[c],
                 amount |-> payEur[c], invokeRef |-> c]
<1>1. /\ call[c] = "idle" /\ seq < MaxSeq /\ seq' = seq + 1
      /\ escrows' = [escrows EXCEPT ![seq + 1] = e]
      /\ call' = [call EXCEPT ![c] = "locked"] /\ ref' = [ref EXCEPT ![c] = seq + 1]
      /\ UNCHANGED <<outcome, copies, replies, nonces, acts, delivered>>
  BY DEF Lock, Rail!lock, node
<1>2. /\ seq \in Nat /\ seq + 1 \in Rail!Ids /\ seq + 1 \in 1 .. MaxSeq /\ seq' \in 0 .. MaxSeq
      /\ seq + 1 # NoRef /\ seq <= seq'
  BY <1>1, InvokeAssumption DEF Inv, TypeInv, Rail!Ids, NoRef
<1>3. e \in Rail!Escrow
  BY InvokeAssumption DEF Inv, TypeInv, Rail!Escrow
<1>4. TypeInv'
  <2>1. escrows' \in [Rail!Ids -> Rail!Escrow \cup {Rail!NoEscrow}]
    BY <1>1, <1>2, <1>3 DEF Inv, TypeInv
  <2>2. call' \in [Calls -> {"idle", "locked", "sent", "settling", "done", "threw", "crashed"}]
    BY <1>1 DEF Inv, TypeInv
  <2>3. ref' \in [Calls -> {NoRef} \cup 1 .. MaxSeq]
    BY <1>1, <1>2 DEF Inv, TypeInv
  <2> QED BY <1>1, <1>2, <2>1, <2>2, <2>3 DEF Inv, TypeInv
<1>5. ASSUME NEW d \in Calls, d # c PROVE AgentInv(d)'
  <2>1. call'[d] = call[d] /\ ref'[d] = ref[d] /\ outcome'[d] = outcome[d] /\ replies' = replies
    BY <1>1, <1>5 DEF Inv, TypeInv
  <2>2. ref[d] \in Nat
    BY InvokeAssumption DEF Inv, TypeInv, NoRef
  <2>3. ref[d] # NoRef => ref[d] # seq + 1 /\ ref[d] \in Rail!Ids
    <3>1. ref[d] # NoRef => ref[d] <= seq
      BY DEF Inv, AgentInv
    <3>2. ref[d] # NoRef => ref[d] \in Rail!Ids
      BY DEF Inv, TypeInv, Rail!Ids
    <3> QED BY <1>2, <2>2, <3>1, <3>2
  <2>4. ref[d] # NoRef => escrows'[ref[d]] = escrows[ref[d]]
    BY <1>1, <2>3 DEF Inv, TypeInv
  <2>5. AgentInv(d) /\ seq' \in Nat
    BY <1>1, <1>2 DEF Inv
  <2> QED BY <1>2, <2>1, <2>2, <2>4, <2>5, AgentInvKeep
<1>6. AgentInv(c)'
  <2>1. /\ call'[c] = "locked" /\ ref'[c] = seq + 1 /\ outcome'[c] = outcome[c] /\ replies' = replies
        /\ escrows'[seq + 1] = e
    BY <1>1, <1>2 DEF Inv, TypeInv
  <2>2. AgentInv(c)
    BY DEF Inv
  <2> QED BY <1>1, <1>2, <2>1, <2>2 DEF AgentInv
<1>7. ASSUME NEW d \in Calls PROVE NodeInv(d)'
  <2>1. ref[d] # NoRef => ref'[d] # NoRef
    BY <1>1, <1>2 DEF Inv, TypeInv
  <2>2. NodeInv(d) /\ Signed(d)' = Signed(d)
    BY <1>1 DEF Inv, Signed
  <2> QED BY <1>1, <2>1, <2>2, NodeInvKeep
<1> QED BY <1>4, <1>5, <1>6, <1>7 DEF Inv

(* Steps that only move the call on: nothing is settled by them, and none  *)
(* leaves an idle call behind with a payment or reaches "done" with one.   *)
LEMMA CallMovesInv ==
  ASSUME payEur' = payEur, Inv, NEW c \in Calls, NEW to \in {"sent", "settling", "done", "threw", "crashed"},
         call[c] \in {"idle", "locked", "sent", "settling"},
         call' = [call EXCEPT ![c] = to],
         to = "settling" => ref[c] # NoRef /\ outcome'[c] # "none",
         to = "done" => ref[c] = NoRef,
         outcome'[c] # "none" => [call |-> c, outcome |-> outcome'[c]] \in replies,
         outcome' \in [Calls -> Outcomes \cup {"none"}],
         \A d \in Calls \ {c} : outcome'[d] = outcome[d],
         UNCHANGED <<escrows, seq, ref, replies, nonces, acts, delivered>>,
         copies' \in [Calls -> [Copies -> {"none", "wire", "verifying", "acting", "gone"}]],
         \A d \in Calls : \A k \in Copies :
           copies'[d][k] = copies[d][k] \/ copies'[d][k] \in {"none", "wire", "gone"}
  PROVE  Inv'
<1>1. TypeInv'
  BY DEF Inv, TypeInv
<1>2. ASSUME NEW d \in Calls, d # c PROVE AgentInv(d)'
  <2>1. call'[d] = call[d] /\ outcome'[d] = outcome[d]
    BY <1>2 DEF Inv, TypeInv
  <2>2. ref[d] \in Nat /\ seq \in Nat /\ seq <= seq'
    BY InvokeAssumption DEF Inv, TypeInv, NoRef
  <2>3. AgentInv(d)
    BY DEF Inv
  <2> QED BY <2>1, <2>2, <2>3, AgentInvKeep
<1>3. AgentInv(c)'
  <2>1. call'[c] = to /\ call[c] # "done"
    BY DEF Inv, TypeInv
  <2>2. AgentInv(c)
    BY DEF Inv
  <2> QED BY <2>1, <2>2 DEF AgentInv
<1>4. ASSUME NEW d \in Calls PROVE NodeInv(d)'
  <2>1. NodeInv(d) /\ Signed(d)' = Signed(d)
    BY DEF Inv, Signed
  <2> QED BY <2>1, NodeInvKeep
<1> QED BY <1>1, <1>2, <1>3, <1>4 DEF Inv

LEMMA LockFailsInv ==
  ASSUME payEur' = payEur, Inv, NEW c \in Calls, LockFails(c)
  PROVE  Inv'
<1>1. AgentInv(c)
  BY DEF Inv
<1> QED BY <1>1, CallMovesInv DEF LockFails, Inv, TypeInv, AgentInv, rail, node

LEMMA SendInv ==
  ASSUME payEur' = payEur, Inv, NEW c \in Calls, Send(c)
  PROVE  Inv'
<1>1. AgentInv(c) /\ 1 \in Copies
  BY InvokeAssumption DEF Inv, Copies
<1>2. copies' = [copies EXCEPT ![c][1] = "wire"]
  BY DEF Send
<1>3. copies' \in [Calls -> [Copies -> {"none", "wire", "verifying", "acting", "gone"}]]
  BY <1>1, <1>2 DEF Inv, TypeInv
<1>4. \A d \in Calls : \A k \in Copies : copies'[d][k] = copies[d][k] \/ copies'[d][k] = "wire"
  BY <1>1, <1>2 DEF Inv, TypeInv
<1>5. /\ call[c] \in {"idle", "locked"} /\ call' = [call EXCEPT ![c] = "sent"]
      /\ UNCHANGED <<escrows, seq, ref, outcome, replies, nonces, acts, delivered>>
  BY DEF Send, rail
<1>6. /\ outcome' \in [Calls -> Outcomes \cup {"none"}]
      /\ outcome'[c] # "none" => [call |-> c, outcome |-> outcome'[c]] \in replies
  BY <1>1, <1>5 DEF AgentInv, Inv, TypeInv
<1> QED BY <1>3, <1>4, <1>5, <1>6, CallMovesInv

LEMMA VerifyInv ==
  ASSUME payEur' = payEur, Inv, NEW c \in Calls, NEW o \in Outcomes, Verify(c, o)
  PROVE  Inv'
<1> PICK to : to = IF ref[c] = NoRef THEN "done" ELSE "settling"
  OBVIOUS
<1>1. /\ call[c] = "sent" /\ call' = [call EXCEPT ![c] = to]
      /\ outcome' = [outcome EXCEPT ![c] = o] /\ [call |-> c, outcome |-> o] \in replies
      /\ UNCHANGED <<escrows, seq, ref, copies, replies, nonces, acts, delivered>>
  BY DEF Verify, rail, node
<1>2. /\ outcome'[c] = o /\ outcome' \in [Calls -> Outcomes \cup {"none"}]
      /\ \A d \in Calls \ {c} : outcome'[d] = outcome[d]
  BY <1>1 DEF Inv, TypeInv
<1>3. o # "none" /\ to \in {"done", "settling"}
  BY DEF Outcomes
<1>4. copies' \in [Calls -> [Copies -> {"none", "wire", "verifying", "acting", "gone"}]]
  BY <1>1 DEF Inv, TypeInv
<1> QED BY <1>1, <1>2, <1>3, <1>4, CallMovesInv

LEMMA GivesUpInv ==
  ASSUME payEur' = payEur, Inv, NEW c \in Calls, VerifyFails(c) \/ FetchFails(c) \/ AgentDies(c)
  PROVE  Inv'
<1>1. AgentInv(c)
  BY DEF Inv
<1>2. PICK to \in {"threw", "crashed"} : call' = [call EXCEPT ![c] = to]
  BY DEF VerifyFails, FetchFails, AgentDies
<1>3. /\ call[c] \in {"locked", "sent", "settling"}
      /\ UNCHANGED <<escrows, seq, ref, outcome, copies, replies, nonces, acts, delivered>>
  BY DEF VerifyFails, FetchFails, AgentDies, rail, node
<1>4. /\ copies' \in [Calls -> [Copies -> {"none", "wire", "verifying", "acting", "gone"}]]
      /\ outcome' \in [Calls -> Outcomes \cup {"none"}]
  BY <1>3 DEF Inv, TypeInv
<1>5. outcome'[c] # "none" => [call |-> c, outcome |-> outcome'[c]] \in replies
  BY <1>1, <1>3 DEF AgentInv
<1> QED BY <1>2, <1>3, <1>4, <1>5, CallMovesInv

(* The settlement: the escrow of this call, and no other, is closed. *)
LEMMA SettleInv ==
  ASSUME payEur' = payEur, Inv, NEW c \in Calls, Settle(c)
  PROVE  Inv'
<1> PICK i : i = ref[c]
  OBVIOUS
<1> PICK st : st = IF outcome[c] = "success" THEN "released" ELSE "refunded"
  OBVIOUS
<1>1. /\ call[c] = "settling" /\ escrows[i].status = "locked"
      /\ escrows' = [escrows EXCEPT ![i].status = st] /\ seq' = seq
      /\ call' = [call EXCEPT ![c] = "done"]
      /\ UNCHANGED <<ref, outcome, copies, replies, nonces, acts, delivered>>
  BY DEF Settle, Rail!release, Rail!refund, Rail!settle, Rail!mustLocked, node
<1>2. /\ AgentInv(c) /\ i # NoRef /\ i \in Rail!Ids
      /\ outcome[c] \in Outcomes
  BY <1>1 DEF Inv, TypeInv, AgentInv, Rail!Ids
<1>3. /\ escrows[i] \in Rail!Escrow /\ [escrows[i] EXCEPT !.status = st] \in Rail!Escrow
      /\ [escrows[i] EXCEPT !.status = st].status = st
      /\ [escrows[i] EXCEPT !.status = st].payee = escrows[i].payee
      /\ [escrows[i] EXCEPT !.status = st].amount = escrows[i].amount
      /\ [escrows[i] EXCEPT !.status = st].invokeRef = escrows[i].invokeRef
  <2>1. escrows[i] \in Rail!Escrow
    BY <1>1, <1>2 DEF Inv, TypeInv, Rail!NoEscrow
  <2>2. st \in {"locked", "released", "refunded"}
    OBVIOUS
  <2> QED BY <2>1, <2>2 DEF Rail!Escrow
<1>4. escrows' = [escrows EXCEPT ![i] = [escrows[i] EXCEPT !.status = st]]
  BY <1>1
<1>5. TypeInv'
  <2>1. escrows' \in [Rail!Ids -> Rail!Escrow \cup {Rail!NoEscrow}]
    BY <1>3, <1>4 DEF Inv, TypeInv
  <2>2. call' \in [Calls -> {"idle", "locked", "sent", "settling", "done", "threw", "crashed"}]
    BY <1>1 DEF Inv, TypeInv
  <2> QED BY <1>1, <2>1, <2>2 DEF Inv, TypeInv
<1>6. ASSUME NEW d \in Calls, d # c PROVE AgentInv(d)'
  <2>1. AgentInv(d) /\ call'[d] = call[d]
    BY <1>1, <1>6 DEF Inv, TypeInv
  <2>2. ref[d] \in Nat /\ seq \in Nat /\ seq <= seq' /\ seq' \in Nat
    BY <1>1, InvokeAssumption DEF Inv, TypeInv, NoRef
  <2>3. ref[d] # NoRef => ref[d] # i
    BY <1>2, <1>6, <2>1 DEF AgentInv
  <2>4. ref[d] # NoRef => escrows'[ref[d]] = escrows[ref[d]]
    BY <1>4, <2>3 DEF Inv, TypeInv, Rail!Ids
  <2> QED BY <1>1, <2>1, <2>2, <2>4, AgentInvKeep
<1>7. AgentInv(c)'
  <2>1. escrows'[i] = [escrows[i] EXCEPT !.status = st] /\ call'[c] = "done"
    BY <1>1, <1>2, <1>4 DEF Inv, TypeInv
  <2>2. st = "released" <=> outcome[c] = "success"
    OBVIOUS
  <2>3. st # "released" => st = "refunded" /\ outcome[c] \in {"rejected", "failure"}
    BY <1>2 DEF Outcomes
  <2>4. st # "locked" /\ ref'[c] = i /\ outcome'[c] = outcome[c] /\ seq' = seq /\ replies' = replies
    BY <1>1
  <2>5. /\ escrows'[i].status = st /\ escrows'[i].payee = escrows[i].payee
        /\ escrows'[i].amount = escrows[i].amount /\ escrows'[i].invokeRef = escrows[i].invokeRef
    BY <1>3, <2>1
  <2>6. /\ i <= seq' /\ escrows'[i].invokeRef = c
        /\ escrows'[i].payee = NodeOf[c] /\ escrows'[i].amount = payEur[c]
        /\ outcome'[c] # "none" => [call |-> c, outcome |-> outcome'[c]] \in replies'
    BY <1>2, <2>4, <2>5 DEF AgentInv
  <2>7. st \in {"released", "refunded"}
    OBVIOUS
  <2> QED BY <2>1, <2>2, <2>3, <2>4, <2>5, <2>6, <2>7 DEF AgentInv
<1>8. ASSUME NEW d \in Calls PROVE NodeInv(d)'
  <2>1. NodeInv(d) /\ Signed(d)' = Signed(d)
    BY <1>1 DEF Inv, Signed
  <2> QED BY <1>1, <2>1, NodeInvKeep
<1> QED BY <1>5, <1>6, <1>7, <1>8 DEF Inv

----------------------------------------------------------------------------
(* The steps of the network and the node. *)

(* Such a step keeps the agent's half of every call, whatever it answers. *)
LEMMA AgentInvSteady ==
  ASSUME payEur' = payEur, Inv, UNCHANGED <<rail, agent>>, replies \subseteq replies'
  PROVE  \A c \in Calls : AgentInv(c)'
<1> SUFFICES ASSUME NEW c \in Calls PROVE AgentInv(c)'
  OBVIOUS
<1>1. /\ AgentInv(c) /\ UNCHANGED <<escrows, seq, call, ref, outcome>>
      /\ ref[c] \in Nat /\ seq \in Nat /\ seq <= seq'
  BY InvokeAssumption DEF Inv, TypeInv, NoRef, rail, agent
<1> QED BY <1>1, AgentInvKeep

(* And the node's half of every call but its own. *)
LEMMA NodeInvOthers ==
  ASSUME payEur' = payEur, Inv, NEW c \in Calls, NEW k \in Copies, NEW to, NEW new,
         copies' = [copies EXCEPT ![c][k] = to],
         replies' = replies \cup new, \A r \in new : r.call = c,
         ref' = ref,
         nonces' = nonces \/ nonces' = [nonces EXCEPT ![NodeOf[c]] = @ \cup {c}],
         \A d \in Calls \ {c} : acts'[d] = acts[d] /\ delivered'[d] = delivered[d]
  PROVE  \A d \in Calls \ {c} : NodeInv(d)'
<1> SUFFICES ASSUME NEW d \in Calls, d # c PROVE NodeInv(d)'
  OBVIOUS
<1>1. NodeInv(d)
  BY DEF Inv
<1>2. copies'[d] = copies[d]
  BY DEF Inv, TypeInv
<1>3. Signed(d)' = Signed(d)
  BY DEF Signed
<1>4. \A o \in Outcomes : [call |-> d, outcome |-> o] \in replies'
                         => [call |-> d, outcome |-> o] \in replies
  OBVIOUS
<1>5. Busy(d)' = Busy(d)
  BY <1>2 DEF Busy
<1>6. d \in nonces'[NodeOf[d]] <=> d \in nonces[NodeOf[d]]
  <2>1. nonces \in [Nodes -> SUBSET Calls] /\ NodeOf[c] \in Nodes /\ NodeOf[d] \in Nodes
    BY InvokeAssumption DEF Inv, TypeInv
  <2>2. CASE nonces' = [nonces EXCEPT ![NodeOf[c]] = @ \cup {c}]
    BY <2>1, <2>2
  <2>3. CASE nonces' = nonces
    BY <2>3
  <2> QED BY <2>2, <2>3
<1> QED BY <1>1, <1>2, <1>3, <1>4, <1>5, <1>6 DEF NodeInv, Outcomes

LEMMA RepeatInv ==
  ASSUME payEur' = payEur, Inv, NEW c \in Calls, NEW k \in Copies, Repeat(c, k)
  PROVE  Inv'
<1>1. /\ copies' = [copies EXCEPT ![c][k] = "wire"]
      /\ UNCHANGED <<rail, agent, replies, nonces, acts, delivered>>
  BY DEF Repeat, agent
<1>2. TypeInv'
  BY <1>1 DEF Inv, TypeInv, rail, agent
<1>3. \A d \in Calls : AgentInv(d)'
  BY <1>1, AgentInvSteady
<1>4. ASSUME NEW d \in Calls PROVE NodeInv(d)'
  <2>1. NodeInv(d) /\ Signed(d)' = Signed(d)
    BY <1>1 DEF Inv, Signed
  <2>2. \A j \in Copies : copies'[d][j] = copies[d][j] \/ copies'[d][j] = "wire"
    BY <1>1 DEF Inv, TypeInv
  <2> QED BY <1>1, <2>1, <2>2, NodeInvKeep DEF agent
<1> QED BY <1>2, <1>3, <1>4 DEF Inv

(* What a step does to the copies of its own call. *)
LEMMA CopyStep ==
  ASSUME payEur' = payEur, TypeInv, NEW c \in Calls, NEW k \in Copies,
         NEW to \in {"none", "wire", "verifying", "acting", "gone"},
         copies' = [copies EXCEPT ![c][k] = to]
  PROVE  /\ copies' \in [Calls -> [Copies -> {"none", "wire", "verifying", "acting", "gone"}]]
         /\ copies'[c][k] = to
         /\ \A j \in Copies \ {k} : copies'[c][j] = copies[c][j]
         /\ Busy(c)' = IF to \in {"verifying", "acting"} THEN Busy(c) \cup {k} ELSE Busy(c) \ {k}
  BY DEF TypeInv, Busy

(* The parts of a node step that every node step has in common. *)
LEMMA NodeStepInv ==
  ASSUME payEur' = payEur, Inv, NEW c \in Calls, NEW k \in Copies,
         NEW to \in {"verifying", "acting", "gone"}, NEW new \in SUBSET Reply,
         copies' = [copies EXCEPT ![c][k] = to],
         replies' = replies \cup new, \A r \in new : r.call = c,
         UNCHANGED <<rail, agent>>,
         nonces' = nonces \/ nonces' = [nonces EXCEPT ![NodeOf[c]] = @ \cup {c}],
         acts' \in [Calls -> Nat], delivered' \in [Calls -> BOOLEAN],
         \A d \in Calls \ {c} : acts'[d] = acts[d] /\ delivered'[d] = delivered[d],
         NodeInv(c)'
  PROVE  Inv'
<1>1. TypeInv'
  <2>1. copies' \in [Calls -> [Copies -> {"none", "wire", "verifying", "acting", "gone"}]]
    BY CopyStep DEF Inv
  <2>2. nonces' \in [Nodes -> SUBSET Calls]
    <3>1. nonces \in [Nodes -> SUBSET Calls] /\ NodeOf[c] \in Nodes
      BY InvokeAssumption DEF Inv, TypeInv
    <3>2. CASE nonces' = [nonces EXCEPT ![NodeOf[c]] = @ \cup {c}]
      BY <3>1, <3>2
    <3>3. CASE nonces' = nonces
      BY <3>1, <3>3
    <3> QED BY <3>2, <3>3
  <2> QED BY <2>1, <2>2 DEF Inv, TypeInv, rail, agent
<1>2. \A d \in Calls : AgentInv(d)'
  BY AgentInvSteady
<1>3. \A d \in Calls \ {c} : NodeInv(d)'
  BY NodeInvOthers DEF agent
<1> QED BY <1>1, <1>2, <1>3 DEF Inv

(* An answer that is no receipt changes nothing that matters. *)
LEMMA ErrorInv ==
  ASSUME payEur' = payEur, Inv, NEW c \in Calls, NEW k \in Copies, Replayed(c, k) \/ TurnAway(c, k)
  PROVE  Inv'
<1> PICK new : new = {[call |-> c, outcome |-> "error"]}
  OBVIOUS
<1>1. /\ copies' = [copies EXCEPT ![c][k] = "gone"] /\ replies' = replies \cup new
      /\ UNCHANGED <<rail, agent, acts, delivered>>
      /\ nonces' = nonces \/ nonces' = [nonces EXCEPT ![NodeOf[c]] = @ \cup {c}]
  BY DEF Replayed, TurnAway, AnswerWith
<1>2. new \in SUBSET Reply /\ \A r \in new : r.call = c
  BY DEF Reply
<1>3. NodeInv(c)'
  <2>1. NodeInv(c)
    BY DEF Inv
  <2>2. \A j \in Copies : copies'[c][j] = copies[c][j] \/ copies'[c][j] = "gone"
    BY <1>1, CopyStep DEF Inv
  <2>3. Signed(c)' \subseteq Signed(c)
    BY <1>1 DEF Signed
  <2>4. \A o \in Outcomes : [call |-> c, outcome |-> o] \in replies'
                           => [call |-> c, outcome |-> o] \in replies
    BY <1>1 DEF Outcomes
  <2>5. nonces[NodeOf[c]] \subseteq nonces'[NodeOf[c]]
    BY <1>1, InvokeAssumption DEF Inv, TypeInv
  <2> QED BY <1>1, <2>1, <2>2, <2>3, <2>4, <2>5, NodeInvKeep DEF agent
<1>4. acts' \in [Calls -> Nat] /\ delivered' \in [Calls -> BOOLEAN]
  BY <1>1 DEF Inv, TypeInv
<1> QED BY <1>1, <1>2, <1>3, <1>4, NodeStepInv

(* The first copy is refused: nothing was done and nothing will be. *)
LEMMA RefuseInv ==
  ASSUME payEur' = payEur, Inv, NEW c \in Calls, NEW k \in Copies, Refuse(c, k)
  PROVE  Inv'
<1> PICK new : new = {[call |-> c, outcome |-> "rejected"]}
  OBVIOUS
<1>1. /\ copies' = [copies EXCEPT ![c][k] = "gone"] /\ replies' = replies \cup new
      /\ c \notin nonces[NodeOf[c]] /\ nonces' = [nonces EXCEPT ![NodeOf[c]] = @ \cup {c}]
      /\ UNCHANGED <<rail, agent, acts, delivered>>
  BY DEF Refuse, FirstSeen, AnswerWith
<1>2. new \in SUBSET Reply /\ \A r \in new : r.call = c
  BY DEF Reply, Outcomes
<1>3. NodeInv(c)'
  <2>1. /\ NodeInv(c) /\ acts[c] = 0 /\ ~delivered[c] /\ Busy(c) = {} /\ Signed(c) = {}
    BY <1>1 DEF Inv, NodeInv
  <2>2. /\ Busy(c)' = {} /\ copies'[c][k] = "gone" /\ \A j \in Copies \ {k} : copies'[c][j] = copies[c][j]
    <3>1. Busy(c)' = Busy(c) \ {k}
      BY <1>1, CopyStep DEF Inv
    <3>2. copies'[c][k] = "gone" /\ \A j \in Copies \ {k} : copies'[c][j] = copies[c][j]
      BY <1>1, CopyStep DEF Inv
    <3> QED BY <2>1, <3>1, <3>2
  <2>3. c \in nonces'[NodeOf[c]]
    BY <1>1, InvokeAssumption DEF Inv, TypeInv
  <2>4. [call |-> c, outcome |-> "success"] \notin replies'
    BY <1>1, <2>1 DEF Signed
  <2>5. \A j \in Copies : copies'[c][j] # "acting"
    BY <2>2 DEF Busy
  <2> QED BY <1>1, <2>1, <2>2, <2>3, <2>4, <2>5 DEF NodeInv
<1>4. acts' \in [Calls -> Nat] /\ delivered' \in [Calls -> BOOLEAN]
  BY <1>1 DEF Inv, TypeInv
<1> QED BY <1>1, <1>2, <1>3, <1>4, NodeStepInv

(* The first copy is admitted: it is the one that is being served. *)
LEMMA AdmitInv ==
  ASSUME payEur' = payEur, Inv, NEW c \in Calls, NEW k \in Copies, Admit(c, k)
  PROVE  Inv'
<1> PICK to : to = IF Price[NodeOf[c]] > 0 THEN "verifying" ELSE "acting"
  OBVIOUS
<1> PICK new \in SUBSET Reply : new = {}
  OBVIOUS
<1>1. /\ copies' = [copies EXCEPT ![c][k] = to] /\ replies' = replies \cup new
      /\ c \notin nonces[NodeOf[c]] /\ nonces' = [nonces EXCEPT ![NodeOf[c]] = @ \cup {c}]
      /\ Price[NodeOf[c]] > 0 => ref[c] # NoRef
      /\ UNCHANGED <<rail, agent, acts, delivered>>
  BY DEF Admit, FirstSeen, Continue
<1>2. to \in {"verifying", "acting"}
  OBVIOUS
<1>3. NodeInv(c)'
  <2>1. /\ NodeInv(c) /\ acts[c] = 0 /\ ~delivered[c] /\ Busy(c) = {} /\ Signed(c) = {}
    BY <1>1 DEF Inv, NodeInv
  <2>2. /\ Busy(c)' = {k} /\ copies'[c][k] = to /\ \A j \in Copies \ {k} : copies'[c][j] = copies[c][j]
    <3>0. /\ TypeInv /\ copies' = [copies EXCEPT ![c][k] = to]
          /\ to \in {"none", "wire", "verifying", "acting", "gone"}
      BY <1>1, <1>2 DEF Inv
    <3>1. Busy(c)' = IF to \in {"verifying", "acting"} THEN Busy(c) \cup {k} ELSE Busy(c) \ {k}
      BY <3>0, CopyStep
    <3>2. copies'[c][k] = to /\ \A j \in Copies \ {k} : copies'[c][j] = copies[c][j]
      BY <3>0, CopyStep
    <3> QED BY <1>2, <2>1, <3>1, <3>2
  <2>3. c \in nonces'[NodeOf[c]] /\ Signed(c)' = {} /\ ref'[c] = ref[c]
    BY <1>1, <2>1, InvokeAssumption DEF Inv, TypeInv, Signed, agent
  <2>4. \A o \in Outcomes : [call |-> c, outcome |-> o] \notin replies'
    BY <1>1, <2>1 DEF Signed, Outcomes
  <2>5. c \in Priced => \A j \in Copies : copies'[c][j] # "acting"
    BY <2>1, <2>2 DEF Busy, Priced
  <2> QED BY <1>1, <2>1, <2>2, <2>3, <2>4, <2>5 DEF NodeInv, Outcomes, Priced
<1>4. acts' \in [Calls -> Nat] /\ delivered' \in [Calls -> BOOLEAN]
  BY <1>1 DEF Inv, TypeInv
<1> QED BY <1>1, <1>2, <1>3, <1>4, NodeStepInv

(* The lock is looked at: a good one is at least the price. *)
LEMMA VerifyLockInv ==
  ASSUME payEur' = payEur, Inv, NEW c \in Calls, NEW k \in Copies, VerifyLock(c, k)
  PROVE  Inv'
<1>1. /\ copies[c][k] = "verifying" /\ UNCHANGED <<rail, agent, nonces, acts, delivered>>
  BY DEF VerifyLock
<1>2. /\ NodeInv(c) /\ k \in Busy(c) /\ acts[c] = 0 /\ ~delivered[c] /\ Busy(c) = {k} /\ Signed(c) = {}
      /\ c \in nonces[NodeOf[c]]
  BY <1>1 DEF Inv, NodeInv, Busy
<1>3. acts' \in [Calls -> Nat] /\ delivered' \in [Calls -> BOOLEAN]
  BY <1>1 DEF Inv, TypeInv
<1>4. ref'[c] = ref[c] /\ acts'[c] = acts[c] /\ delivered'[c] = delivered[c] /\ nonces' = nonces
  BY <1>1 DEF agent
<1>5. CASE LockIsGood(c)
  <2> PICK new \in SUBSET Reply : new = {}
    OBVIOUS
  <2>1. copies' = [copies EXCEPT ![c][k] = "acting"] /\ replies' = replies \cup new
    BY <1>5 DEF VerifyLock, Continue
  <2>2. /\ Busy(c)' = {k} /\ Signed(c)' = {}
    <3>1. Busy(c)' = Busy(c) \cup {k}
      BY <2>1, CopyStep DEF Inv
    <3> QED BY <1>2, <2>1, <3>1 DEF Signed
  <2>3. c \in Priced => ref[c] # NoRef /\ payEur[c] >= Price[NodeOf[c]]
    <3>1. c \in Priced => ref[c] # NoRef
      BY <1>2 DEF NodeInv
    <3>2. ref[c] # NoRef => escrows[ref[c]].amount = payEur[c]
      BY DEF Inv, AgentInv
    <3> QED BY <1>5, <3>1, <3>2 DEF LockIsGood, Rail!verifyLock
  <2>4. \A o \in Outcomes : [call |-> c, outcome |-> o] \notin replies'
    BY <1>2, <2>1 DEF Signed, Outcomes
  <2>5. NodeInv(c)'
    BY <1>2, <1>4, <2>2, <2>3, <2>4 DEF NodeInv, Outcomes
  <2> QED BY <1>1, <1>3, <2>1, <2>5, NodeStepInv
<1>6. CASE ~LockIsGood(c)
  <2> PICK new : new = {[call |-> c, outcome |-> "rejected"]}
    OBVIOUS
  <2>1. /\ copies' = [copies EXCEPT ![c][k] = "gone"] /\ replies' = replies \cup new
        /\ new \in SUBSET Reply /\ \A r \in new : r.call = c
    BY <1>6 DEF VerifyLock, AnswerWith, Reply, Outcomes
  <2>2. /\ Busy(c)' = {} /\ \A j \in Copies : copies'[c][j] # "acting"
    <3>1. Busy(c)' = Busy(c) \ {k}
      BY <2>1, CopyStep DEF Inv
    <3>2. Busy(c)' = {}
      BY <1>2, <3>1
    <3> QED BY <3>2 DEF Busy
  <2>3. [call |-> c, outcome |-> "success"] \notin replies'
    BY <1>2, <2>1 DEF Signed
  <2>4. NodeInv(c)'
    BY <1>2, <1>4, <2>2, <2>3 DEF NodeInv
  <2> QED BY <1>1, <1>3, <2>1, <2>4, NodeStepInv
<1> QED BY <1>5, <1>6

(* The handler runs; its receipt says what it did. *)
LEMMA ActInv ==
  ASSUME payEur' = payEur, Inv, NEW c \in Calls, NEW k \in Copies, NEW o \in {"success", "failure"}, Act(c, k, o)
  PROVE  Inv'
<1> PICK new : new = {[call |-> c, outcome |-> o]}
  OBVIOUS
<1>1. /\ copies[c][k] = "acting" /\ UNCHANGED <<rail, agent, nonces>>
      /\ copies' = [copies EXCEPT ![c][k] = "gone"] /\ replies' = replies \cup new
      /\ acts' = [acts EXCEPT ![c] = @ + 1] /\ delivered' = [delivered EXCEPT ![c] = @ \/ o = "success"]
  BY DEF Act, AnswerWith
<1>2. /\ NodeInv(c) /\ k \in Busy(c) /\ acts[c] = 0 /\ ~delivered[c] /\ Busy(c) = {k} /\ Signed(c) = {}
      /\ c \in nonces[NodeOf[c]]
  BY <1>1 DEF Inv, NodeInv, Busy
<1>3. new \in SUBSET Reply /\ \A r \in new : r.call = c
  BY DEF Reply, Outcomes
<1>4. acts' \in [Calls -> Nat] /\ acts'[c] = 1 /\ \A d \in Calls \ {c} : acts'[d] = acts[d]
  BY <1>1, <1>2 DEF Inv, TypeInv
<1>5. /\ delivered' \in [Calls -> BOOLEAN]
      /\ delivered'[c] <=> o = "success"
      /\ \A d \in Calls \ {c} : delivered'[d] = delivered[d]
  <2>1. delivered \in [Calls -> BOOLEAN]
    BY DEF Inv, TypeInv
  <2> QED BY <1>1, <1>2, <2>1
<1>6. /\ Busy(c)' = {} /\ \A j \in Copies : copies'[c][j] # "acting"
  <2>1. Busy(c)' = Busy(c) \ {k}
    BY <1>1, CopyStep DEF Inv
  <2>2. Busy(c)' = {}
    BY <1>2, <2>1
  <2> QED BY <2>2 DEF Busy
<1>7. \A x \in Outcomes : [call |-> c, outcome |-> x] \in replies' <=> x = o
  BY <1>1, <1>2 DEF Signed, Outcomes
<1>8. c \in Priced => ref[c] # NoRef /\ payEur[c] >= Price[NodeOf[c]]
  BY <1>1, <1>2 DEF NodeInv
<1>9. NodeInv(c)'
  <2>1. c \in nonces'[NodeOf[c]] /\ ref'[c] = ref[c] /\ acts'[c] <= 1 /\ acts'[c] # 0
    BY <1>1, <1>2, <1>4 DEF agent
  <2>2. [call |-> c, outcome |-> "success"] \in replies' => delivered'[c]
    BY <1>5, <1>7 DEF Outcomes
  <2>3. \A x \in {"rejected", "failure"} : [call |-> c, outcome |-> x] \in replies' => ~delivered'[c]
    BY <1>5, <1>7 DEF Outcomes
  <2>4. c \in Priced /\ delivered'[c] => ref'[c] # NoRef /\ payEur[c] >= Price[NodeOf[c]]
    BY <1>8, <2>1
  <2> QED BY <1>6, <2>1, <2>2, <2>3, <2>4 DEF NodeInv
<1>10. \A d \in Calls \ {c} : acts'[d] = acts[d] /\ delivered'[d] = delivered[d]
  BY <1>4, <1>5
<1>11. acts' \in [Calls -> Nat] /\ delivered' \in [Calls -> BOOLEAN]
  BY <1>4, <1>5
<1> QED BY <1>1, <1>3, <1>9, <1>10, <1>11, NodeStepInv

(* A restart drops copies that are being served.  The nonces stay, so no   *)
(* other copy of those requests is served later.                           *)
LEMMA RestartInv ==
  ASSUME payEur' = payEur, Inv, Persistent, NEW n \in Nodes, Restart(n)
  PROVE  Inv'
<1>1. /\ copies' = [c \in Calls |-> [k \in Copies |->
           IF NodeOf[c] = n /\ copies[c][k] \in {"verifying", "acting"} THEN "gone" ELSE copies[c][k]]]
      /\ UNCHANGED <<rail, agent, replies, nonces, acts, delivered>>
  BY DEF Restart
<1>2. copies' \in [Calls -> [Copies -> {"none", "wire", "verifying", "acting", "gone"}]]
  BY <1>1 DEF Inv, TypeInv
<1>3. TypeInv'
  BY <1>1, <1>2 DEF Inv, TypeInv, rail, agent
<1>4. \A d \in Calls : AgentInv(d)'
  BY <1>1, AgentInvSteady
<1>5. ASSUME NEW d \in Calls PROVE NodeInv(d)'
  <2>1. NodeInv(d) /\ Signed(d)' = Signed(d)
    BY <1>1 DEF Inv, Signed
  <2>2. \A j \in Copies : copies'[d][j] = copies[d][j] \/ copies'[d][j] = "gone"
    BY <1>1
  <2> QED BY <1>1, <2>1, <2>2, NodeInvKeep DEF agent
<1> QED BY <1>3, <1>4, <1>5 DEF Inv

(* No step changes what the caller asked to pay. *)
LEMMA PayEurFixed == [Next]_vars => payEur' = payEur
<1>1. ASSUME NEW c \in Calls, AgentStep(c) \/ FetchFails(c) \/ AgentDies(c) PROVE payEur' = payEur
  BY <1>1 DEF AgentStep, Lock, LockFails, Send, Verify, VerifyFails, Settle, FetchFails, AgentDies
<1>2. ASSUME NEW c \in Calls, NEW k \in Copies, NodeStep(c, k) \/ Repeat(c, k) PROVE payEur' = payEur
  BY <1>2 DEF NodeStep, Replayed, TurnAway, Refuse, Admit, VerifyLock, Act, Repeat, agent
<1>3. ASSUME NEW a \in Agents, NEW amount \in Amounts, Deposit(a, amount) PROVE payEur' = payEur
  BY <1>3 DEF Deposit, agent
<1>4. ASSUME NEW n \in Nodes, Restart(n) PROVE payEur' = payEur
  BY <1>4 DEF Restart, agent
<1>5. UNCHANGED vars => payEur' = payEur
  BY DEF vars, agent
<1> QED BY <1>1, <1>2, <1>3, <1>4, <1>5 DEF Next


LEMMA NextInv ==
  ASSUME Persistent PROVE Inv /\ [Next]_vars => Inv'
<1> SUFFICES ASSUME Inv, [Next]_vars PROVE Inv'
  OBVIOUS
<1>0. payEur' = payEur
  BY PayEurFixed
<1>1. CASE \E a \in Agents, amount \in Amounts : Deposit(a, amount)
  BY <1>0, <1>1, DepositInv
<1>2. CASE \E c \in Calls : AgentStep(c) \/ FetchFails(c) \/ AgentDies(c)
  BY <1>0, <1>2, LockInv, LockFailsInv, SendInv, VerifyInv, GivesUpInv, SettleInv DEF AgentStep
<1>3. CASE \E c \in Calls, k \in Copies : NodeStep(c, k) \/ Repeat(c, k)
  BY <1>0, <1>3, ErrorInv, RefuseInv, AdmitInv, VerifyLockInv, ActInv, RepeatInv DEF NodeStep
<1>4. CASE \E n \in Nodes : Restart(n)
  BY <1>0, <1>4, RestartInv
<1>5. CASE UNCHANGED vars
  <2>1. TypeInv'
    BY <1>5 DEF Inv, TypeInv, vars, rail
  <2>2. ASSUME NEW c \in Calls PROVE AgentInv(c)' /\ NodeInv(c)'
    BY <1>5 DEF Inv, AgentInv, NodeInv, Busy, Signed, vars, rail
  <2> QED BY <2>1, <2>2 DEF Inv
<1> QED BY <1>1, <1>2, <1>3, <1>4, <1>5 DEF Next

(* AT MOST ONE RUN, for every instance with a persistent nonce store: no   *)
(* repetition of a request and no restart makes a handler run twice.       *)
THEOREM HandlerRunsOnce ==
  ASSUME Persistent PROVE Spec => []RunsOnce
<1>1. Inv => RunsOnce
  BY DEF Inv, NodeInv, RunsOnce
<1> QED BY <1>1, InitInv, NextInv, PTL DEF Spec

(* PAID IN FULL, for every instance with a persistent nonce store. *)
THEOREM NodeIsPaidInFull ==
  ASSUME Persistent PROVE Spec => []PaidInFull
<1>1. Inv => PaidInFull
  <2> SUFFICES ASSUME Inv, NEW c \in Priced, delivered[c], call[c] = "done"
               PROVE  /\ escrows[ref[c]].status = "released"
                      /\ escrows[ref[c]].payee = NodeOf[c]
                      /\ escrows[ref[c]].amount >= Price[NodeOf[c]]
    BY DEF PaidInFull
  <2>1. c \in Calls /\ AgentInv(c) /\ NodeInv(c)
    BY DEF Priced, Inv
  <2>2. ref[c] # NoRef /\ payEur[c] >= Price[NodeOf[c]]
    BY <2>1 DEF NodeInv
  <2>3. outcome[c] \notin {"rejected", "failure"}
    BY <2>1 DEF AgentInv, NodeInv
  <2>4. escrows[ref[c]].status = "released"
    BY <2>1, <2>2, <2>3 DEF AgentInv
  <2> QED BY <2>1, <2>2, <2>4 DEF AgentInv
<1> QED BY <1>1, InitInv, NextInv, PTL DEF Spec

----------------------------------------------------------------------------
(* The refinement of FairExchange. *)

(* A step that moves no escrow and no reference moves no money. *)
LEMMA MoneySteady ==
  ASSUME UNCHANGED <<escrows, ref>>
  PROVE  \A d \in Calls : Money(d)' = Money(d)
  BY DEF Money

LEMMA RefineLock ==
  ASSUME Inv, NEW c \in Calls, Lock(c)
  PROVE  [Exchange!Next]_(Exchange!vars)
<1> DEFINE e == [status |-> "locked", payer |-> AgentOf[c], payee |-> NodeOf[c],
                 amount |-> payEur[c], invokeRef |-> c]
<1>1. /\ call[c] = "idle" /\ delivered' = delivered
      /\ escrows' = [escrows EXCEPT ![seq + 1] = e]
      /\ ref' = [ref EXCEPT ![c] = seq + 1] /\ seq < MaxSeq
  BY DEF Lock, Rail!lock, node
<1>2. /\ ref[c] = NoRef /\ seq \in Nat /\ seq + 1 # NoRef /\ seq + 1 \in Rail!Ids
  <2>1. AgentInv(c) /\ seq \in 0 .. MaxSeq
    BY DEF Inv, TypeInv
  <2>2. ref[c] = NoRef
    BY <1>1, <2>1 DEF AgentInv
  <2> QED BY <1>1, <2>1, <2>2, InvokeAssumption DEF Rail!Ids, NoRef
<1>3. ref'[c] = seq + 1 /\ escrows'[seq + 1].status = "locked"
  <2>1. escrows'[seq + 1] = e
    BY <1>1, <1>2 DEF Inv, TypeInv
  <2> QED BY <1>1, <2>1 DEF Inv, TypeInv
<1>4. Money(c) = "unpaid" /\ Money(c)' = "held"
  BY <1>2, <1>3 DEF Money
<1>5. ASSUME NEW d \in Calls, d # c PROVE Money(d)' = Money(d)
  <2>1. ref'[d] = ref[d]
    BY <1>1, <1>5 DEF Inv, TypeInv
  <2>2. CASE ref[d] = NoRef
    BY <2>1, <2>2 DEF Money
  <2>3. CASE ref[d] # NoRef
    <3>1. ref[d] \in Nat /\ ref[d] <= seq
      <4>1. AgentInv(d) /\ ref[d] \in {NoRef} \cup 1 .. MaxSeq
        BY DEF Inv, TypeInv
      <4> QED BY <2>3, <4>1, InvokeAssumption DEF AgentInv
    <3>2. escrows'[ref[d]] = escrows[ref[d]]
      BY <1>1, <1>2, <2>3, <3>1 DEF Inv, TypeInv, Rail!Ids
    <3>3. escrows[ref[d]].status \in {"locked", "released", "refunded"}
      <4>1. AgentInv(d)
        BY DEF Inv
      <4> QED BY <2>3, <4>1 DEF AgentInv
    <3> QED BY <2>1, <2>3, <3>2, <3>3 DEF Money
  <2> QED BY <2>2, <2>3
<1> DEFINE M == [d \in Priced |-> Money(d)]
           D == [d \in Priced |-> delivered[d]]
<1>6. D' = D
  BY <1>1
<1>7. CASE c \in Priced
  <2>1. M' = [M EXCEPT ![c] = "held"] /\ M[c] = "unpaid"
    BY <1>4, <1>5, <1>7 DEF Priced
  <2>2. Exchange!Hold(c)
    BY <1>6, <2>1 DEF Exchange!Hold
  <2> QED BY <1>7, <2>2 DEF Exchange!Next
<1>8. CASE c \notin Priced
  <2>1. M' = M
    BY <1>5, <1>8 DEF Priced
  <2> QED BY <1>6, <2>1 DEF Exchange!vars
<1> QED BY <1>7, <1>8

LEMMA RefineSettle ==
  ASSUME Inv, NEW c \in Calls, Settle(c)
  PROVE  [Exchange!Next]_(Exchange!vars)
<1> PICK i : i = ref[c]
  OBVIOUS
<1> PICK st : st = IF outcome[c] = "success" THEN "released" ELSE "refunded"
  OBVIOUS
<1>1. /\ call[c] = "settling" /\ escrows[i].status = "locked"
      /\ escrows' = [escrows EXCEPT ![i].status = st]
      /\ ref' = ref /\ delivered' = delivered
  BY DEF Settle, Rail!release, Rail!refund, Rail!settle, Rail!mustLocked, node
<1>2. /\ AgentInv(c) /\ NodeInv(c) /\ i # NoRef /\ i \in Rail!Ids
      /\ outcome[c] \in Outcomes /\ [call |-> c, outcome |-> outcome[c]] \in replies
  BY <1>1 DEF Inv, TypeInv, AgentInv, Rail!Ids
<1>3. escrows[i] \in Rail!Escrow
  BY <1>1, <1>2 DEF Inv, TypeInv, Rail!NoEscrow
<1>4. escrows'[i].status = st
  BY <1>1, <1>2, <1>3 DEF Inv, TypeInv, Rail!Escrow
<1>5. ASSUME NEW d \in Calls, d # c PROVE Money(d)' = Money(d)
  <2>1. CASE ref[d] = NoRef
    BY <1>1, <2>1 DEF Money
  <2>2. CASE ref[d] # NoRef
    <3>1. AgentInv(d) /\ ref[d] \in Rail!Ids
      BY <2>2 DEF Inv, TypeInv, Rail!Ids
    <3>2. escrows[ref[d]].invokeRef = d /\ escrows[i].invokeRef = c
      BY <1>2, <2>2, <3>1 DEF AgentInv
    <3>3. ref[d] # i
      BY <1>5, <3>2
    <3>4. escrows'[ref[d]] = escrows[ref[d]] /\ ref'[d] = ref[d]
      BY <1>1, <3>1, <3>3 DEF Inv, TypeInv
    <3>5. escrows[ref[d]].status \in {"locked", "released", "refunded"}
      BY <2>2, <3>1 DEF AgentInv
    <3> QED BY <2>2, <3>4, <3>5 DEF Money
  <2> QED BY <2>1, <2>2
<1> DEFINE M == [d \in Priced |-> Money(d)]
           D == [d \in Priced |-> delivered[d]]
<1>6. D' = D /\ Money(c) = "held"
  BY <1>1, <1>2 DEF Money
<1>7. CASE c \in Priced /\ outcome[c] = "success"
  <2>1. Money(c)' = "paid"
    BY <1>1, <1>2, <1>4, <1>7 DEF Money
  <2>2. M' = [M EXCEPT ![c] = "paid"] /\ M[c] = "held"
    BY <1>5, <1>6, <1>7, <2>1 DEF Priced
  <2>3. D[c]
    BY <1>2, <1>7 DEF NodeInv
  <2>4. Exchange!Pay(c)
    BY <1>6, <2>2, <2>3 DEF Exchange!Pay
  <2> QED BY <1>7, <2>4 DEF Exchange!Next
<1>8. CASE c \in Priced /\ outcome[c] # "success"
  <2>1. Money(c)' = "returned"
    BY <1>1, <1>2, <1>4, <1>8 DEF Money
  <2>2. M' = [M EXCEPT ![c] = "returned"] /\ M[c] = "held"
    BY <1>5, <1>6, <1>8, <2>1 DEF Priced
  <2>3. ~D[c]
    BY <1>2, <1>8 DEF NodeInv, Outcomes
  <2>4. Exchange!GiveBack(c)
    BY <1>6, <2>2, <2>3 DEF Exchange!GiveBack
  <2> QED BY <1>8, <2>4 DEF Exchange!Next
<1>9. CASE c \notin Priced
  <2>1. M' = M
    BY <1>5, <1>9 DEF Priced
  <2> QED BY <1>6, <2>1 DEF Exchange!vars
<1> QED BY <1>7, <1>8, <1>9

(* The node does priced work only while the money is set aside: the escrow *)
(* is closed by a verified receipt alone, and none exists yet.             *)
LEMMA RefineAct ==
  ASSUME Inv, NEW c \in Calls, NEW k \in Copies, NEW o \in {"success", "failure"}, Act(c, k, o)
  PROVE  [Exchange!Next]_(Exchange!vars)
<1>1. /\ copies[c][k] = "acting" /\ UNCHANGED <<escrows, ref>>
      /\ delivered' = [delivered EXCEPT ![c] = @ \/ o = "success"]
  BY DEF Act, rail, agent
<1>2. /\ AgentInv(c) /\ NodeInv(c) /\ k \in Busy(c) /\ acts[c] = 0 /\ ~delivered[c] /\ Signed(c) = {}
      /\ delivered \in [Calls -> BOOLEAN]
  BY <1>1 DEF Inv, TypeInv, NodeInv, Busy
<1> DEFINE M == [d \in Priced |-> Money(d)]
           D == [d \in Priced |-> delivered[d]]
<1>3. M' = M
  BY <1>1, MoneySteady DEF Priced
<1>4. CASE c \in Priced /\ o = "success"
  <2>1. outcome[c] = "none" \/ outcome[c] = "error"
    BY <1>2 DEF AgentInv, Signed
  <2>2. ref[c] # NoRef
    BY <1>2, <1>4 DEF NodeInv
  <2>3. escrows[ref[c]].status = "locked"
    BY <1>2, <2>1, <2>2 DEF AgentInv
  <2>4. M[c] = "held" /\ ~D[c]
    BY <1>2, <1>4, <2>2, <2>3 DEF Money
  <2>5. D' = [D EXCEPT ![c] = TRUE]
    BY <1>1, <1>2, <1>4 DEF Priced
  <2>6. Exchange!Serve(c)
    BY <1>3, <2>4, <2>5 DEF Exchange!Serve
  <2> QED BY <1>4, <2>6 DEF Exchange!Next
<1>5. CASE o = "failure" \/ c \notin Priced
  <2>1. \A d \in Priced : delivered'[d] = delivered[d]
    BY <1>1, <1>2, <1>5 DEF Priced
  <2>2. D' = D
    BY <2>1 DEF Priced
  <2> QED BY <1>3, <2>2 DEF Exchange!vars
<1> QED BY <1>4, <1>5

(* FAIR EXCHANGE, for every instance with a persistent nonce store: under  *)
(* any loss, repetition, interleaving and crash, money and work keep the   *)
(* promise of FairExchange.                                                *)
THEOREM Fairness ==
  ASSUME Persistent PROVE Spec => IsFairExchange
<1>1. Init => Exchange!Init
  BY DEF Init, Exchange!Init, Money, Priced
<1>2. Inv /\ [Next]_vars => [Exchange!Next]_(Exchange!vars)
  <2> SUFFICES ASSUME Inv, [Next]_vars PROVE [Exchange!Next]_(Exchange!vars)
    OBVIOUS
  <2>1. ASSUME UNCHANGED <<escrows, ref, delivered>>
        PROVE  UNCHANGED Exchange!vars
    BY <2>1, MoneySteady DEF Exchange!vars, Priced
  <2>2. CASE \E a \in Agents, amount \in Amounts : Deposit(a, amount)
    BY <2>1, <2>2 DEF Deposit, Rail!deposit, node
  <2>3. ASSUME NEW c \in Calls, AgentStep(c) \/ FetchFails(c) \/ AgentDies(c)
        PROVE  [Exchange!Next]_(Exchange!vars)
    <3>1. CASE Lock(c) \/ Settle(c)
      BY <3>1, RefineLock, RefineSettle
    <3>2. CASE ~(Lock(c) \/ Settle(c))
      BY <2>1, <2>3, <3>2
         DEF AgentStep, LockFails, Send, Verify, VerifyFails, FetchFails, AgentDies, rail, node
    <3> QED BY <3>1, <3>2
  <2>4. ASSUME NEW c \in Calls, NEW k \in Copies, NodeStep(c, k) \/ Repeat(c, k)
        PROVE  [Exchange!Next]_(Exchange!vars)
    <3>1. CASE \E o \in {"success", "failure"} : Act(c, k, o)
      BY <3>1, RefineAct
    <3>2. CASE ~\E o \in {"success", "failure"} : Act(c, k, o)
      BY <2>1, <2>4, <3>2
         DEF NodeStep, Replayed, TurnAway, Refuse, Admit, VerifyLock, Repeat, rail, agent
    <3> QED BY <3>1, <3>2
  <2>5. CASE \E n \in Nodes : Restart(n)
    BY <2>1, <2>5 DEF Restart, rail, agent
  <2>6. CASE UNCHANGED vars
    BY <2>1, <2>6 DEF vars, rail
  <2> QED BY <2>2, <2>3, <2>4, <2>5, <2>6 DEF Next
<1> QED BY <1>1, <1>2, InitInv, NextInv, PTL DEF Spec, IsFairExchange, Exchange!Spec

=============================================================================
