------------------------------ MODULE Grants ------------------------------
(***************************************************************************)
(* BOUNDED DELEGATION: grants, sub-grants and the gate in front of the     *)
(* work of a node (core/src/grant.ts, node/src/node.ts).                   *)
(*                                                                         *)
(* A sub-grant carries its parent, so what a node is shown is a chain of   *)
(* links down from a root; a delegation that forks is two chains.  Links   *)
(* are made by createGrant and createSubGrant, or by anything else that    *)
(* has a key.                                                              *)
(***************************************************************************)
EXTENDS Integers, Sequences

CONSTANTS
  Dids,
  Caps,         \* the capabilities of the node
  Guarded,      \* those with requiredGrant
  PriceEur,     \* priceEur of each, 0 for none
  Limits,       \* the max_eur a scope entry may have, where it is a number
  Times,        \* the not_after a grant may have, where it is a number
  Odd,          \* what else JSON can say for either
  OddAbove,     \* pairs, one of them odd, for which JavaScript's > is true
  OddReached,   \* pairs of a time and an odd one for which >= is true
  Unlimited,    \* an entry without max_eur
  Absent,       \* no entry
  MaxDepth,     \* MAX_DELEGATION_DEPTH
  Requests,     \* INVOKEs the node handles at a time
  MaxLinks,     \* bound: links of a chain
  MaxForeign,   \* bound: links not made as the library would
  MaxNow        \* bound: the clock

ASSUME GrantsAssumption ==
  /\ Guarded \subseteq Caps /\ PriceEur \in [Caps -> Nat]
  /\ Limits \subseteq Nat /\ Odd \cap Nat = {}
  /\ {Unlimited, Absent} \cap (Nat \cup Odd) = {} /\ Unlimited # Absent
  /\ Times \subseteq Nat /\ MaxDepth \in Nat
  /\ MaxLinks \in Nat /\ MaxForeign \in Nat /\ MaxNow \in Nat

VARIABLES
  chain,        \* the delegation, root first
  now,
  request,      \* what each INVOKE is doing
  foreign       \* history: how many links were not made by the library

grantsVars == <<chain, now, request, foreign>>

(* A grant is JSON that nobody validates: limit is a Record<string,        *)
(* unknown> and max_eur is cast to a number, and so is not_after, without  *)
(* a look at what they are.                                                *)
Entry == Limits \cup Odd \cup {Unlimited, Absent}

(* scope has the entry that find returns for a capability: of several only *)
(* the first is ever looked at.  The grant is signed with the key of       *)
(* signer.                                                                 *)
Link ==
  [issuer : Dids, grantee : Dids, scope : [Caps -> Entry],
   not_after : Times \cup Odd, delegable : BOOLEAN, signer : Dids]

(* grant counts the links of the chain that were sent, 0 if none was asked *)
(* for; at is history, the time of the check.                              *)
IdleRequest == [pc |-> "idle"]
Invocation == [pc : {"locking", "done"}, from : Dids, cap : Caps, grant : Nat, at : Nat]

GrantsTypeOK ==
  /\ chain \in Seq(Link) /\ Len(chain) <= MaxLinks
  /\ now \in Nat /\ foreign \in Nat
  /\ request \in [Requests -> {IdleRequest} \cup Invocation]
  /\ \A r \in Requests : request[r] # IdleRequest => request[r].grant <= Len(chain)

GrantsInit ==
  /\ chain = <<>>
  /\ now = 0
  /\ request = [r \in Requests |-> IdleRequest]
  /\ foreign = 0

----------------------------------------------------------------------------
(* Making grants. *)

(* x > y.  What is no number is above nothing and below nothing, unless it *)
(* can be made one or both are strings.                                    *)
Above(x, y) == IF x \in Nat /\ y \in Nat THEN x > y ELSE <<x, y>> \in OddAbove

(* Date.now() >= not_after. *)
Expired(link) ==
  IF link.not_after \in Nat THEN now >= link.not_after ELSE <<now, link.not_after>> \in OddReached

(* Mutant: an entry without a limit is within one that has one. *)
EntryWithinUncapped(child, parent) ==
  \/ child = Absent
  \/ parent # Absent /\ (Unlimited \notin {parent, child} => ~Above(child, parent))

(* What scopeWithin asks of each entry of the child. *)
EntryWithin(child, parent) ==
  \/ child = Absent
  \/ parent # Absent /\ (parent # Unlimited => child # Unlimited /\ ~Above(child, parent))

scopeWithin(child, parent) == \A c \in Caps : EntryWithin(child.scope[c], parent.scope[c])

Own(link) == link.signer = link.issuer

Extend(link, isForeign) ==
  /\ chain' = Append(chain, link)
  /\ IF isForeign
     THEN foreign < MaxForeign /\ foreign' = foreign + 1
     ELSE UNCHANGED foreign
  /\ UNCHANGED <<now, request>>

(* The key is a parameter, and may be another's. *)
createGrant(link) == chain = <<>> /\ Extend(link, ~Own(link))

(* Mutant: the scope is not compared. *)
NarrowsTimeOnly(link, parent) ==
  /\ parent.delegable
  /\ link.issuer = parent.grantee
  /\ ~Above(link.not_after, parent.not_after)

(* What createSubGrant throws for otherwise, and the issuer it writes. *)
Narrows(link, parent) ==
  /\ parent.delegable
  /\ link.issuer = parent.grantee
  /\ scopeWithin(link, parent)
  /\ ~Above(link.not_after, parent.not_after)

(* It does not count the links above. *)
createSubGrant(link) ==
  /\ chain # <<>>
  /\ Narrows(link, chain[Len(chain)])
  /\ Extend(link, ~Own(link))

(* A link that something else wrote under the chain. *)
OtherGrant(link) == Extend(link, TRUE)

----------------------------------------------------------------------------
(* Checking them. *)

(* verifyChain of the first n links: each is sound by itself, no more than *)
(* MaxDepth are above the last, and each narrows the one above.            *)
verifyChain(n) ==
  /\ n - 1 <= MaxDepth
  /\ \A i \in 1..n : Own(chain[i]) /\ ~Expired(chain[i])
  /\ \A i \in 2..n :
       /\ chain[i - 1].delegable
       /\ chain[i].issuer = chain[i - 1].grantee
       /\ scopeWithin(chain[i], chain[i - 1])
       /\ ~Above(chain[i].not_after, chain[i - 1].not_after)

(* An entry allows an amount. *)
Allows(entry, amount) == entry # Absent /\ (entry # Unlimited => ~Above(amount, entry))

verifyGrant(n, grantee, cap) ==
  /\ verifyChain(n)
  /\ chain[n].grantee = grantee
  /\ Allows(chain[n].scope[cap], PriceEur[cap])

----------------------------------------------------------------------------
(* The node.  What it rejects changes nothing here. *)

(* A free capability is acted on at once; a priced one waits for the rail. *)
Gate(r, from, cap, n) ==
  /\ request[r] = IdleRequest
  /\ IF cap \in Guarded THEN n \in 1..Len(chain) /\ verifyGrant(n, from, cap) ELSE n = 0
  /\ request' = [request EXCEPT ![r] =
       [pc |-> IF PriceEur[cap] > 0 THEN "locking" ELSE "done",
        from |-> from, cap |-> cap, grant |-> n, at |-> now]]
  /\ UNCHANGED <<chain, now, foreign>>

(* verifyLock answers: the work is done, or SETTLE_INVALID. *)
Act(r) ==
  /\ request[r] # IdleRequest /\ request[r].pc = "locking"
  /\ \/ request' = [request EXCEPT ![r].pc = "done"]
     \/ request' = [request EXCEPT ![r] = IdleRequest]
  /\ UNCHANGED <<chain, now, foreign>>

Respond(r) ==
  /\ request[r] # IdleRequest /\ request[r].pc = "done"
  /\ request' = [request EXCEPT ![r] = IdleRequest]
  /\ UNCHANGED <<chain, now, foreign>>

Tick ==
  /\ now < MaxNow
  /\ now' = now + 1
  /\ UNCHANGED <<chain, request, foreign>>

GrantsNext ==
  \/ Len(chain) < MaxLinks /\ \E link \in Link : createGrant(link) \/ createSubGrant(link) \/ OtherGrant(link)
  \/ \E r \in Requests, from \in Dids, cap \in Caps, n \in 0..Len(chain) : Gate(r, from, cap, n)
  \/ \E r \in Requests : Act(r) \/ Respond(r)
  \/ Tick

GrantsSpec == GrantsInit /\ [][GrantsNext]_grantsVars

----------------------------------------------------------------------------
(* Properties. *)

(* AUTHORITY IS TRACED TO THE ROOT (grant.ts:6-10).  Whatever links others *)
(* sign under a grant, work that needs one is done for a caller to whom    *)
(* each holder in the chain passed it on, was allowed to, and each of them *)
(* signed for that capability, and for that time where not_after is one.   *)
(* A limit that is a number caps the price as long as no limit below it is *)
(* something else: below one that is no number the code keeps no cap, for  *)
(* all that "a sub-grant cannot widen a cap" (grant.ts:79).                *)
AuthorityHolds ==
  \A r \in Requests : request[r] # IdleRequest /\ request[r].cap \in Guarded =>
    LET n == request[r].grant
        entry(i) == chain[i].scope[request[r].cap]
    IN
    /\ n \in 1..MaxDepth + 1 /\ chain[n].grantee = request[r].from
    /\ \A i \in 1..n :
         /\ chain[i].signer = chain[i].issuer
         /\ entry(i) # Absent
         /\ entry(i) \in Limits /\ (\A j \in i..n : entry(j) \notin Odd) => PriceEur[request[r].cap] <= entry(i)
         /\ chain[i].not_after \in Times => request[r].at < chain[i].not_after
         /\ i < n => chain[i].delegable /\ chain[i + 1].signer = chain[i].grantee

(* WHAT IS MADE IS ACCEPTED (grant.ts:53-54: "a malformed sub-grant can    *)
(* never be created, not merely caught at verify time").  A chain that the *)
(* library made with the keys of its holders, and no deeper than may be,   *)
(* is verified until its last link expires; or any link, where some        *)
(* not_after is no number.                                                 *)
MadeIsAccepted ==
  foreign = 0 =>
    \A n \in 1..Len(chain) :
      /\ n <= MaxDepth + 1
      /\ \A i \in 1..n : Expired(chain[i]) => i < n /\ \A k \in 1..n : chain[k].not_after \in Times
      => verifyChain(n)

=============================================================================
