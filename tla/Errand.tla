------------------------------ MODULE Errand ------------------------------
(***************************************************************************)
(* AN AGENT'S ERRANDS: the tool an agent calls over MCP, and compositions  *)
(* (mcp/src/build.ts, client/src/compose.ts, core/src/trust/chain.ts).     *)
(*                                                                         *)
(* The tool finds a node, reads its manifest, and invokes it within the    *)
(* limit of its caller; a composition invokes a list of nodes, each with   *)
(* the receipt of the one before.  Nodes are redeployed with other terms   *)
(* meanwhile.  What happens inside an invocation is the matter of Invoke:  *)
(* here it is a lock, an answer of the node, and a settlement or nothing.  *)
(***************************************************************************)
EXTENDS Integers, Sequences, FiniteSets

CONSTANTS
  Nodes,
  Terms,        \* what a manifest says of the capability: [offered, price, risky]
  NoLimit,      \* a call without maxEur
  Maxima,       \* maxEur of the others
  Tools,        \* calls of aleph_invoke
  Compositions, \* calls of compose
  Plans,        \* the steps a composition may have
  HasRail,      \* an injected rail
  Signed,       \* ... whose records are signed, the reference one
  MaxDeploys    \* bound: manifests a node publishes

ASSUME ErrandAssumption ==
  /\ Terms \subseteq [offered : BOOLEAN, price : Nat, risky : BOOLEAN] /\ Terms # {}
  /\ Maxima \subseteq Nat /\ NoLimit \notin Nat
  /\ Tools \cap Compositions = {}
  /\ Plans \subseteq Seq([node : Nodes, pay : Nat]) /\ <<>> \notin Plans
  /\ HasRail \in BOOLEAN /\ Signed \in BOOLEAN /\ MaxDeploys \in Nat

VARIABLES
  published,    \* the manifests of each node, the last is in force
  tool,         \* what each call of the tool is doing
  comp,         \* what each composition is doing
  call,         \* the last invocation of each
  issued,       \* the receipts nodes signed; the index is the hash
  paid,         \* history: the releases of each errand: receipt and amount
  held          \* what each has in escrow

vars == <<published, tool, comp, call, issued, paid, held>>

Errands == Tools \cup Compositions
InForce(n) == published[n][Len(published[n])]
Price(m) == IF m.offered THEN m.price ELSE 0

Idle == [pc |-> "idle"]
Outcomes == {"success", "failure", "rejected"}
Receipt == [outcome : Outcomes, prev : SUBSET Nat, for : Errands]
Call == [pc : {"sent", "served"}, node : Nodes, amount : Nat, prev : SUBSET Nat, receipt : Nat, terms : Terms]
Tool ==
  [pc : {"ranked", "invoking", "attesting", "done", "refused", "threw"},
   max : Maxima \cup {NoLimit}, confirm : BOOLEAN, node : Nodes, read : Terms]
Comp == [pc : {"step", "waiting", "done", "threw"}, steps : Plans, receipts : Seq(Nat)]

TypeOK ==
  /\ published \in [Nodes -> Seq(Terms)]
  /\ tool \in [Tools -> {Idle} \cup Tool] /\ comp \in [Compositions -> {Idle} \cup Comp]
  /\ call \in [Errands -> {Idle} \cup Call]
  /\ issued \in Seq(Receipt)
  /\ paid \in [Errands -> Seq(Nat \X Nat)] /\ held \in [Errands -> Nat]

Init ==
  /\ published \in [Nodes -> {<<m>> : m \in Terms}]
  /\ tool = [t \in Tools |-> Idle] /\ comp = [c \in Compositions |-> Idle]
  /\ call = [e \in Errands |-> Idle]
  /\ issued = <<>>
  /\ paid = [e \in Errands |-> <<>>] /\ held = [e \in Errands |-> 0]

----------------------------------------------------------------------------
(* One invocation. *)

(* The payment is locked and the INVOKE is sent; a lock that fails is      *)
(* thrown before. *)
Send(e, n, amount, prev) ==
  /\ amount > 0 => HasRail
  /\ held' = [held EXCEPT ![e] = @ + amount]
  /\ call' = [call EXCEPT ![e] =
       [pc |-> "sent", node |-> n, amount |-> amount, prev |-> prev, receipt |-> 0, terms |-> published[n][1]]]
  /\ UNCHANGED <<issued, paid>>

LockFails(e, amount) == amount > 0 /\ UNCHANGED <<call, issued, paid, held>>

(* The node answers, on the terms that are now in force; for some other    *)
(* reason (the grant, the schema, a limit) it may always reject.           *)
Serve(e, outcome) ==
  /\ call[e] # Idle /\ call[e].pc = "sent"
  /\ LET m == InForce(call[e].node) IN
     /\ outcome # "rejected" => m.offered /\ call[e].amount >= m.price
     /\ issued' = Append(issued, [outcome |-> outcome, prev |-> call[e].prev, for |-> e])
     /\ call' = [call EXCEPT ![e].pc = "served", ![e].receipt = Len(issued) + 1, ![e].terms = m]
  /\ UNCHANGED <<published, tool, comp, paid, held>>

Has(e) == call[e] # Idle /\ call[e].pc = "served"
Outcome(e) == issued[call[e].receipt].outcome

(* Mutant: what was not rejected is paid. *)
ReleasesUnlessRejected(outcome) == outcome # "rejected"

Releases(outcome) == outcome = "success"

(* The receipt arrives and is verified: release or refund, of what was     *)
(* paid at all.                                                            *)
Settle(e) ==
  /\ Has(e)
  /\ held' = [held EXCEPT ![e] = @ - call[e].amount]
  /\ paid' = IF Releases(Outcome(e)) /\ call[e].amount > 0
             THEN [paid EXCEPT ![e] = Append(@, <<call[e].receipt, call[e].amount>>)]
             ELSE paid
  /\ UNCHANGED <<call, issued>>

(* A request or its receipt is lost, the receipt is not what it should be, *)
(* or the rail will not settle: what is in escrow stays there.             *)
Throws(e) == UNCHANGED <<published, call, issued, paid, held>>

----------------------------------------------------------------------------
(* aleph_invoke. *)

(* resolveRanked found somebody; who is first does not matter here.        *)
Invoke(t, max, confirm, n) ==
  /\ tool[t] = Idle
  /\ tool' = [tool EXCEPT ![t] =
       [pc |-> "ranked", max |-> max, confirm |-> confirm, node |-> n, read |-> published[n][1]]]
  /\ UNCHANGED <<published, comp, call, issued, paid, held>>

(* Mutant: the limit is compared with what the registry says, which may be *)
(* of an earlier manifest.                                                 *)
AffordableByPointer(t, m) ==
  tool[t].max # NoLimit =>
    \E i \in DOMAIN published[tool[t].node] : Price(published[tool[t].node][i]) <= tool[t].max

Affordable(t, m) == tool[t].max # NoLimit => Price(m) <= tool[t].max

Acceptable(t, m) ==
  /\ m.offered /\ m.risky => tool[t].confirm
  /\ Price(m) > 0 => HasRail
  /\ Affordable(t, m)

(* fetchManifest has pinned the DID and verified the signature, which the  *)
(* earlier manifests of the node have too; one without the capability      *)
(* costs nothing and asks for no confirmation.                             *)
Fetch(t) ==
  /\ tool[t] # Idle /\ tool[t].pc = "ranked"
  /\ \E i \in DOMAIN published[tool[t].node] :
       LET m == published[tool[t].node][i] IN
       \/ /\ ~Acceptable(t, m)
          /\ tool' = [tool EXCEPT ![t].pc = "refused", ![t].read = m]
          /\ UNCHANGED <<call, issued, paid, held>>
       \/ /\ Acceptable(t, m)
          /\ tool' = [tool EXCEPT ![t].pc = "invoking", ![t].read = m]
          /\ Send(t, tool[t].node, Price(m), {})
       \/ /\ Acceptable(t, m)
          /\ tool' = [tool EXCEPT ![t].pc = "threw", ![t].read = m]
          /\ LockFails(t, Price(m))
  /\ UNCHANGED <<published, comp>>

(* The settlement of a success, if it is one of the reference rail and the *)
(* caller gave a rate, is attested.                                        *)
Finish(t) ==
  /\ tool[t] # Idle /\ tool[t].pc = "invoking"
  /\ Settle(t)
  /\ \/ tool' = [tool EXCEPT ![t].pc = "done"]
     \/ /\ Outcome(t) = "success" /\ call[t].amount > 0 /\ Signed
        /\ tool' = [tool EXCEPT ![t].pc = "attesting"]
  /\ UNCHANGED <<published, comp>>

(* Whatever /attest answers. *)
Attested(t) ==
  /\ tool[t] # Idle /\ tool[t].pc = "attesting"
  /\ tool' = [tool EXCEPT ![t].pc = "done"]
  /\ UNCHANGED <<published, comp, call, issued, paid, held>>

ToolThrows(t) ==
  /\ tool[t] # Idle /\ tool[t].pc \in {"ranked", "invoking", "attesting"}
  /\ tool' = [tool EXCEPT ![t].pc = "threw"]
  /\ Throws(t) /\ UNCHANGED comp

----------------------------------------------------------------------------
(* compose. *)

Compose(c, steps) ==
  /\ comp[c] = Idle
  /\ comp' = [comp EXCEPT ![c] = [pc |-> "step", steps |-> steps, receipts |-> <<>>]]
  /\ UNCHANGED <<published, tool, call, issued, paid, held>>

At(c, pc) == comp[c] # Idle /\ comp[c].pc = pc

(* linkTo the receipt of the step before, if there was one. *)
linkTo(c) ==
  LET r == comp[c].receipts IN IF r = <<>> THEN {} ELSE {r[Len(r)]}

Step(c) ==
  /\ At(c, "step")
  /\ LET step == comp[c].steps[Len(comp[c].receipts) + 1] IN
     \/ /\ Send(c, step.node, step.pay, linkTo(c))
        /\ comp' = [comp EXCEPT ![c].pc = "waiting"]
     \/ /\ LockFails(c, step.pay)
        /\ comp' = [comp EXCEPT ![c].pc = "threw"]
  /\ UNCHANGED <<published, tool>>

(* A step that did not succeed throws, with nothing of the ones before. *)
StepEnds(c) ==
  /\ At(c, "waiting")
  /\ Settle(c)
  /\ LET r == Append(comp[c].receipts, call[c].receipt) IN
     comp' = [comp EXCEPT ![c] =
       IF Outcome(c) # "success" THEN [@ EXCEPT !.pc = "threw"]
       ELSE [@ EXCEPT !.receipts = r,
                      !.pc = IF Len(r) = Len(comp[c].steps) THEN "done" ELSE "step"]]
  /\ UNCHANGED <<published, tool>>

StepThrows(c) ==
  /\ At(c, "waiting")
  /\ comp' = [comp EXCEPT ![c].pc = "threw"]
  /\ Throws(c) /\ UNCHANGED tool

----------------------------------------------------------------------------
(* A node starts again, with other terms. *)
Deploy(n, m) ==
  /\ Len(published[n]) < MaxDeploys
  /\ published' = [published EXCEPT ![n] = Append(@, m)]
  /\ UNCHANGED <<tool, comp, call, issued, paid, held>>

Next ==
  \/ \E t \in Tools, max \in Maxima \cup {NoLimit}, confirm \in BOOLEAN, n \in Nodes :
       Invoke(t, max, confirm, n)
  \/ \E t \in Tools : Fetch(t) \/ Finish(t) \/ Attested(t) \/ ToolThrows(t)
  \/ \E c \in Compositions, steps \in Plans : Compose(c, steps)
  \/ \E c \in Compositions : Step(c) \/ StepEnds(c) \/ StepThrows(c)
  \/ \E e \in Errands, outcome \in Outcomes : Serve(e, outcome)
  \/ \E n \in Nodes, m \in Terms : Deploy(n, m)

Spec == Init /\ [][Next]_vars

----------------------------------------------------------------------------
(* Auditing. *)

(* Mutant: a link to any receipt earlier in the list will do. *)
verifyReceiptChainLoose(chain) ==
  /\ chain # <<>>
  /\ \A i \in 2..Len(chain) : \E j \in 1..i - 1 : chain[j] \in issued[chain[i]].prev

(* Each receipt names the hash of the one before it; nothing is asked of   *)
(* the first.                                                              *)
verifyReceiptChain(chain) ==
  /\ chain # <<>>
  /\ \A i \in 2..Len(chain) : chain[i - 1] \in issued[chain[i]].prev

Lists == UNION {[1..n -> DOMAIN issued] : n \in 1..3}

----------------------------------------------------------------------------
(* Properties. *)

(* NO SURPRISE FOR THE CALLER OF THE TOOL (build.ts:92-93).  Whatever      *)
(* terms a node takes on between its manifest, the lock and the work, what *)
(* a call has in escrow and what it paid is within maxEur, is paid once    *)
(* and for work that was done at no higher price, and an unconfirmed call  *)
(* has a risky capability run only if the manifest it read did not say so. *)
AsAgreed ==
  \A t \in Tools : tool[t] # Idle =>
    LET spent == {paid[t][i] : i \in DOMAIN paid[t]} IN
    /\ Len(paid[t]) <= 1 /\ (paid[t] # <<>> => held[t] = 0)
    /\ tool[t].max # NoLimit => held[t] <= tool[t].max /\ \A x \in spent : x[2] <= tool[t].max
    /\ \A x \in spent :
         /\ issued[x[1]].outcome = "success" /\ issued[x[1]].for = t
         /\ x[2] = Price(tool[t].read) /\ call[t].terms.price <= x[2]
    /\ Has(t) /\ Outcome(t) # "rejected" /\ ~tool[t].confirm =>
         ~(tool[t].read.offered /\ tool[t].read.risky)

(* PAID FOR WHAT WAS DELIVERED (compose.ts:3-4).  Wherever a composition   *)
(* ended, it paid its steps in order, each its price, as far as it held    *)
(* their receipts, and at most the next one is left in escrow.             *)
PaysForDelivered ==
  \A c \in Compositions : comp[c] # Idle =>
    LET S == comp[c].steps
        r == comp[c].receipts
        priced == {i \in DOMAIN r : S[i].pay > 0}
    IN  /\ Len(paid[c]) = Cardinality(priced)
        /\ \A i \in priced : paid[c][Cardinality({j \in priced : j <= i})] = <<r[i], S[i].pay>>
        /\ \A i \in DOMAIN r : issued[r[i]].outcome = "success"
        /\ held[c] > 0 => Len(r) < Len(S) /\ held[c] = S[Len(r) + 1].pay

(* AN AUDITED CHAIN IS WHOLE (chain.ts:4).  Of the receipts of all errands,*)
(* a list is accepted only if it is one receipt, or an unbroken stretch of *)
(* what one composition got, in its order, the one that ended it included; *)
(* and what is returned is accepted.                                       *)
AuditedIsWhole ==
  /\ \A c \in Compositions : At(c, "done") => verifyReceiptChain(comp[c].receipts)
  /\ \A chain \in Lists : verifyReceiptChain(chain) =>
       \/ Len(chain) = 1
       \/ \E c \in Compositions : comp[c] # Idle /\
            LET got == IF Has(c) /\ ~(\E i \in DOMAIN comp[c].receipts : comp[c].receipts[i] = call[c].receipt)
                       THEN Append(comp[c].receipts, call[c].receipt) ELSE comp[c].receipts
            IN  \E k \in 0..Len(got) - Len(chain) : \A i \in DOMAIN chain : chain[i] = got[k + i]

=============================================================================
