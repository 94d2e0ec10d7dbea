---------------------------- MODULE Reputation ----------------------------
(***************************************************************************)
(* TRUST: the attestations of one node, from attest to computeTrust        *)
(* (core/src/trust/attest.ts, client/src/client.ts, node/src/node.ts and   *)
(* the reputation stores of store/src).                                    *)
(*                                                                         *)
(* Agents attest with the records of their settlements; the node checks an *)
(* attestation and stores it; readers follow the pages of /reputation and  *)
(* score what they got; others keep an answer under its ETag.  With a      *)
(* store that does not wait and the synchronous verifier POST /attest is   *)
(* one step after its body was read.  A verifier that reads the chain, and *)
(* PostgreSQL, answer later.                                               *)
(***************************************************************************)
EXTENDS Integers, Sequences, FiniteSets

CONSTANTS
  Agents,       \* DIDs that attest
  Subjects,     \* DIDs that are attested about
  Node,         \* the one that keeps this store
  Payments,     \* the settlements that a record can be about
  Spellings,    \* the strings an escrowId may be written as
  Terms,        \* how each one's escrowId, payer and payee are written
  OnChain,      \* those of the EVM rail
  MadeUp,       \* those of rails that sign what they never did
  Times,        \* ts of an attestation, which its issuer chooses
  Ratings,      \* in whole steps of which MaxRating is 1.0
  MaxRating,
  Handlers,     \* requests that can wait at POST /attest
  Clients,      \* they read the reputation of this node
  Limit,        \* REPUTATION_PAGE_SIZE
  MaxSeq,       \* bound: rows inserted
  MaxEpoch,     \* bound: restarts
  MaxRevs       \* bound: revocations a reader scores with

(* A rail signs its record over one escrowId and two DIDs, as they are     *)
(* written.  On chain an id is bytes, which hex of either case spells, and *)
(* a party an address, which has did:pkh DIDs of several spellings.        *)
(* amount is above 0 for whatever is not <= 0.                             *)
ASSUME ReputationAssumption ==
  /\ Node \in Subjects
  /\ OnChain \subseteq Payments /\ MadeUp \subseteq Payments \ OnChain
  /\ Terms \in [Payments -> [ids : SUBSET Spellings, payer : SUBSET Agents,
                             payee : SUBSET Subjects, amount : Nat]]
  /\ \A p \in Payments \ OnChain : \A id, other \in Terms[p].ids : id = other
  /\ Times \subseteq Nat \ {0} /\ Ratings \subseteq Nat /\ MaxRating \in Nat
  /\ Limit \in Nat \ {0} /\ MaxSeq \in Nat /\ MaxEpoch \in Nat /\ MaxRevs \in Nat

VARIABLES
  store,        \* the driver: "memory", "sqlite" or "postgres"
  verifier,     \* attestationVerifier: "sync" or "chain"
  pay,          \* what the rail, or the chain, says of each payment
  rows,         \* the attestations of this node, by seq
  last,         \* the last seq given
  handler,      \* what each POST /attest is doing
  client,       \* what each client has read, or is reading
  epoch         \* history: restarts of the node

vars == <<store, verifier, pay, rows, last, handler, client, epoch>>
config == <<store, verifier>>

(* settlement is what id, the escrowId, and rail stand for; status is what *)
(* the record says.  An attestation is its own signature.                  *)
Attestation ==
  {att \in [subject : Subjects, issued_by : Agents, settlement : Payments, id : Spellings,
            status : {"released", "refunded"}, rating : Ratings, ts : Times] :
     att.id \in Terms[att.settlement].ids}

Revocation == [attestation : Attestation, issued_by : Agents]
Row == [seq : Nat, att : Attestation]
Idle == [pc |-> "idle"]
Post == [pc : {"verified", "drawn"}, att : Attestation, seq : Nat]
ETag == Nat \X Nat

(* owed is history: what was stored when the walk began, and still is.     *)
Walk == [pc : {"next", "done"}, cursor : Nat, got : Seq(Attestation), owed : SUBSET Attestation]
Kept == [pc : {"kept", "asked"}, of : {"page", "summary"}, etag : ETag, content : SUBSET Row, epoch : Nat]

Sync == store # "postgres"
Prompt == Sync /\ verifier = "sync"

Stands(h, pc) == handler[h] # Idle /\ handler[h].pc = pc
Is(c, pc) == client[c] # Idle /\ client[c].pc = pc
Keeps(c) == Is(c, "kept") \/ Is(c, "asked")

TypeOK ==
  /\ store \in {"memory", "sqlite", "postgres"} /\ verifier \in {"sync", "chain"}
  /\ pay \in [Payments -> {"open", "released", "refunded"}]
  /\ rows \subseteq Row /\ last \in Nat
  /\ handler \in [Handlers -> {Idle} \cup Post]
  /\ client \in [Clients -> {Idle} \cup Walk \cup Kept]
  /\ epoch \in Nat
  /\ \A r \in rows : r.seq > 0 /\ r.seq <= last
  /\ \A r, s \in rows : r.seq = s.seq => r = s
  /\ Prompt => \A h \in Handlers : handler[h] = Idle
  /\ Sync => \A h \in Handlers : ~Stands(h, "drawn")
  /\ \A c \in Clients : Is(c, "asked") => ~Sync /\ client[c].of = "page"

Init ==
  /\ store \in {"memory", "sqlite", "postgres"} /\ verifier \in {"sync", "chain"}
  /\ pay = [p \in Payments |-> "open"]
  /\ rows = {} /\ last = 0
  /\ handler = [h \in Handlers |-> Idle]
  /\ client = [c \in Clients |-> Idle]
  /\ epoch = 0

----------------------------------------------------------------------------
(* Verification. *)

(* The record is checked with the key of the rail that it names itself.    *)
(* The rail of a payment signs what it did; a made-up one signs anything.  *)
verifySettlement(att) == att.settlement \in MadeUp \/ att.status = pay[att.settlement]

(* What verifyAttestation and verifyAttestationOnChain ask alike: the      *)
(* signature holds, as an attestation is its own signature.                *)
Earned(att) ==
  /\ att.rating <= MaxRating
  /\ att.status = "released"
  /\ att.issued_by \in Terms[att.settlement].payer
  /\ att.subject \in Terms[att.settlement].payee
  /\ Terms[att.settlement].amount > 0

verifyAttestation(att) == att.settlement \notin OnChain /\ verifySettlement(att) /\ Earned(att)

(* Nobody signs a record of the chain: readChain asks the contract.        *)
verifyAttestationOnChain(att) ==
  IF att.settlement \notin OnChain THEN verifyAttestation(att)
  ELSE Earned(att) /\ pay[att.settlement] = "released"

Verified(how, att) == IF how = "sync" THEN verifyAttestation(att) ELSE verifyAttestationOnChain(att)

----------------------------------------------------------------------------
(* The rail, and POST /attest. *)

Settle(p, s) ==
  /\ p \notin MadeUp /\ pay[p] = "open"
  /\ pay' = [pay EXCEPT ![p] = s]
  /\ UNCHANGED <<config, rows, last, handler, client, epoch>>

Accepts(att) == Verified(verifier, att) /\ att.subject = Node
Backing(att) == {r \in rows : r.att.id = att.id}

(* addAttestation in memory and over SQLite: an escrowId that backs a row, *)
(* as it is written, backs no other.                                       *)
Add(att) ==
  IF Backing(att) = {}
  THEN rows' = rows \cup {[seq |-> last + 1, att |-> att]} /\ last' = last + 1
  ELSE UNCHANGED <<rows, last>>

Attest(att) ==
  /\ Prompt /\ last < MaxSeq
  /\ Accepts(att)
  /\ Add(att)
  /\ UNCHANGED <<config, pay, handler, client, epoch>>

Verify(h, att) ==
  /\ ~Prompt /\ last < MaxSeq
  /\ handler[h] = Idle
  /\ Accepts(att)
  /\ handler' = [handler EXCEPT ![h] = [pc |-> "verified", att |-> att, seq |-> 0]]
  /\ UNCHANGED <<config, pay, rows, last, client, epoch>>

Insert(h) ==
  /\ Sync /\ last < MaxSeq
  /\ Stands(h, "verified")
  /\ Add(handler[h].att)
  /\ handler' = [handler EXCEPT ![h] = Idle]
  /\ UNCHANGED <<config, pay, client, epoch>>

(* Mutant: the sequence is not advanced. *)
DrawStuck(h) ==
  /\ ~Sync /\ last < MaxSeq
  /\ Stands(h, "verified")
  /\ handler' = [handler EXCEPT ![h].pc = "drawn", ![h].seq = last + 1]
  /\ last' = IF rows = {} THEN last + 1 ELSE last
  /\ UNCHANGED <<config, pay, rows, client, epoch>>

(* PostgreSQL draws the seq before it looks for a conflict ... *)
Draw(h) ==
  /\ ~Sync /\ last < MaxSeq
  /\ Stands(h, "verified")
  /\ handler' = [handler EXCEPT ![h].pc = "drawn", ![h].seq = last + 1]
  /\ last' = last + 1
  /\ UNCHANGED <<config, pay, rows, client, epoch>>

(* Mutant: the settlement was looked for before the insert, not by it. *)
CommitBlind(h) ==
  /\ Stands(h, "drawn")
  /\ rows' = rows \cup {[seq |-> handler[h].seq, att |-> handler[h].att]}
  /\ handler' = [handler EXCEPT ![h] = Idle]
  /\ UNCHANGED <<config, pay, last, client, epoch>>

(* ... and inserts that were drawn in one order commit in another; the     *)
(* later one of a settlement does nothing.                                 *)
Commit(h) ==
  /\ Stands(h, "drawn")
  /\ rows' = IF Backing(handler[h].att) = {}
             THEN rows \cup {[seq |-> handler[h].seq, att |-> handler[h].att]}
             ELSE rows
  /\ handler' = [handler EXCEPT ![h] = Idle]
  /\ UNCHANGED <<config, pay, last, client, epoch>>

(* The connection breaks: 500, and the row is not there. *)
InsertThrows(h) ==
  /\ handler[h] # Idle
  /\ handler' = [handler EXCEPT ![h] = Idle]
  /\ UNCHANGED <<config, pay, rows, last, client, epoch>>

(* The process is gone with its requests and a store in memory. *)
Restart ==
  /\ epoch < MaxEpoch
  /\ epoch' = epoch + 1
  /\ handler' = [h \in Handlers |-> Idle]
  /\ IF store = "memory" THEN rows' = {} /\ last' = 0 ELSE UNCHANGED <<rows, last>>
  /\ client' = [c \in Clients |->
       IF Is(c, "asked") THEN Idle
       ELSE IF store = "memory" /\ (Is(c, "next") \/ Is(c, "done"))
       THEN [client[c] EXCEPT !.owed = {}]
       ELSE client[c]]
  /\ UNCHANGED <<config, pay>>

----------------------------------------------------------------------------
(* GET /reputation, and a reader that follows its pages. *)

After(cursor) == {r \in rows : r.seq > cursor}

(* getAttestations: the rows after the cursor, oldest first, at most Limit. *)
OnPage(cursor) ==
  {r \in After(cursor) : Cardinality({s \in After(cursor) : s.seq < r.seq}) < Limit}

InOrder(page, cursor) ==
  /\ {page[i] : i \in DOMAIN page} = OnPage(cursor)
  /\ \A i, j \in DOMAIN page : i < j => page[i].seq < page[j].seq

Pages(cursor) ==
  {page \in UNION {[1..n -> OnPage(cursor)] : n \in 0..Limit} : InOrder(page, cursor)}

(* Mutant: one row further. *)
nextCursorSkips(page, cursor) ==
  IF page = <<>> \/ page[Len(page)].seq >= last THEN 0 ELSE page[Len(page)].seq + 1

(* In memory the cursor is an index, which is the seq of the row before,   *)
(* and there is a next page if the list goes on; in a database if this one *)
(* is full.                                                                *)
nextCursor(page, cursor) ==
  IF page # <<>> /\ IF store = "memory" THEN OnPage(cursor) # After(cursor) ELSE Len(page) = Limit
  THEN page[Len(page)].seq
  ELSE 0

fetchReputation(c) ==
  /\ client[c] = Idle \/ Is(c, "done")
  /\ client' = [client EXCEPT ![c] =
       [pc |-> "next", cursor |-> 0, got |-> <<>>, owed |-> {r.att : r \in rows}]]
  /\ UNCHANGED <<config, pay, rows, last, handler, epoch>>

Fetch(c) ==
  /\ Is(c, "next")
  /\ \E page \in Pages(client[c].cursor) :
       LET next == nextCursor(page, client[c].cursor) IN
       client' = [client EXCEPT ![c].got = @ \o [i \in DOMAIN page |-> page[i].att],
                                ![c].cursor = next,
                                ![c].pc = IF next = 0 THEN "done" ELSE "next"]
  /\ UNCHANGED <<config, pay, rows, last, handler, epoch>>

(* An error (429, 500) has no attestations and no cursor: the walk ends    *)
(* with what it has.                                                       *)
Refused(c) ==
  /\ Is(c, "next")
  /\ client' = [client EXCEPT ![c].cursor = 0, ![c].pc = "done", ![c].owed = {}]
  /\ UNCHANGED <<config, pay, rows, last, handler, epoch>>

(* The fetch rejects: fetchReputation throws. *)
Rejected(c) ==
  /\ Is(c, "next") \/ Is(c, "asked")
  /\ client' = [client EXCEPT ![c] = Idle]
  /\ UNCHANGED <<config, pay, rows, last, handler, epoch>>

----------------------------------------------------------------------------
(* A client that keeps an answer under its ETag: the summary, or the first *)
(* page, whose ETag is the summary's.                                      *)

newestTs == {t \in Times : /\ \E r \in rows : r.att.ts = t
                           /\ \A r \in rows : r.att.ts <= t}

Summary == <<Cardinality(rows), IF rows = {} THEN 0 ELSE CHOOSE t \in newestTs : TRUE>>

Content(of) == IF of = "summary" THEN rows ELSE OnPage(0)

Answer(c, of, etag) ==
  client' = [client EXCEPT ![c] =
    [pc |-> "kept", of |-> of, etag |-> etag, content |-> Content(of), epoch |-> epoch]]

(* If-None-Match has the ETag: 304, and nothing changes. *)
Matches(c) == Is(c, "kept") /\ client[c].etag = Summary

(* One query answers for the summary; a page takes two. *)
Ask(c, of) ==
  /\ Sync \/ of = "summary"
  /\ client[c] = Idle \/ (Is(c, "kept") /\ client[c].of = of)
  /\ ~Matches(c)
  /\ Answer(c, of, Summary)
  /\ UNCHANGED <<config, pay, rows, last, handler, epoch>>

(* PostgreSQL: first the summary ... *)
AskSummary(c) ==
  /\ ~Sync
  /\ client[c] = Idle \/ (Is(c, "kept") /\ client[c].of = "page")
  /\ ~Matches(c)
  /\ client' = [client EXCEPT ![c] =
       [pc |-> "asked", of |-> "page", etag |-> Summary, content |-> {}, epoch |-> epoch]]
  /\ UNCHANGED <<config, pay, rows, last, handler, epoch>>

(* Mutant: the summary is read after a page, which may be of any age. *)
ReadPageFirst(c) ==
  /\ Is(c, "asked")
  /\ \E old \in SUBSET rows :
       /\ Cardinality(old) = client[c].etag[1]
       /\ client' = [client EXCEPT ![c].pc = "kept", ![c].etag = Summary, ![c].content = old]
  /\ UNCHANGED <<config, pay, rows, last, handler, epoch>>

(* ... then the page. *)
ReadPage(c) ==
  /\ Is(c, "asked")
  /\ Answer(c, "page", client[c].etag)
  /\ UNCHANGED <<config, pay, rows, last, handler, epoch>>

Next ==
  \/ \E p \in Payments, s \in {"released", "refunded"} : Settle(p, s)
  \/ \E att \in Attestation : Attest(att) \/ \E h \in Handlers : Verify(h, att)
  \/ \E h \in Handlers : Insert(h) \/ Draw(h) \/ Commit(h) \/ InsertThrows(h)
  \/ \E c \in Clients : fetchReputation(c) \/ Fetch(c) \/ Refused(c) \/ Rejected(c)
  \/ \E c \in Clients, of \in {"page", "summary"} : Ask(c, of)
  \/ \E c \in Clients : AskSummary(c) \/ ReadPage(c)
  \/ Restart

Spec == Init /\ [][Next]_vars

----------------------------------------------------------------------------
(* computeTrust, for a reader that scores what a walk got. *)

(* revokedBy is a Map: the last revocation of an attestation is the one    *)
(* that is looked at.                                                      *)
RevokedBy(revs, att) ==
  \E k \in DOMAIN revs :
    /\ revs[k].attestation = att /\ revs[k].issued_by = att.issued_by
    /\ \A m \in DOMAIN revs : m > k => revs[m].attestation # att

(* Mutant: whose revocation it is, is not asked. *)
StandingUnlessRevoked(atts, revs, how) ==
  {i \in DOMAIN atts : Verified(how, atts[i]) /\ \A k \in DOMAIN revs : revs[k].attestation # atts[i]}

Standing(atts, revs, how) ==
  {i \in DOMAIN atts : Verified(how, atts[i]) /\ ~RevokedBy(revs, atts[i])}

(* Mutant: no settlement is looked for among those seen. *)
CountedTwice(atts, revs, how) == Standing(atts, revs, how)

(* score: of the attestations with one escrow id the first counts. *)
Counted(atts, revs, how) ==
  LET S == Standing(atts, revs, how) IN
  {i \in S : \A j \in S : j < i => atts[j].id # atts[i].id}

(* The lists of revocations a reader may have of what it got. *)
Lists(atts) ==
  UNION {[1..n -> [attestation : {atts[i] : i \in DOMAIN atts}, issued_by : Agents]] : n \in 0..MaxRevs}

----------------------------------------------------------------------------
(* Properties. *)

Between(att) ==
  att.issued_by \in Terms[att.settlement].payer /\ att.subject \in Terms[att.settlement].payee

(* Its issuer paid its subject ... *)
Paid(att) == Between(att) /\ pay[att.settlement] = "released"

(* ... or a made-up rail says so. *)
Backed(att) == Between(att) /\ (att.settlement \in MadeUp \/ pay[att.settlement] = "released")

(* ONE SETTLEMENT, ONE ATTESTATION (interfaces.ts:107).  Whatever requests *)
(* race, an escrowId as it is written is in the store once; what is stored *)
(* is about this node, and was paid for by its issuer unless a made-up     *)
(* rail vouches for it.                                                    *)
OneEach ==
  /\ \A r \in rows : r.att.subject = Node /\ Backed(r.att)
  /\ \A r, s \in rows : r.att.id = s.att.id => r = s

(* TRUST IS EARNED (attest.ts:3, :255).  Whatever pages a reader was given *)
(* by a node that may have lost its store in between, and whatever it      *)
(* takes for revoked, each attestation it counts was paid for, unless a    *)
(* made-up rail vouches for it; and it counts one for an escrowId, which   *)
(* of a reference rail's payment there is one, and on chain one for each   *)
(* way to write it.                                                        *)
TrustIsEarned ==
  \A c \in Clients : Is(c, "done") =>
    LET atts == client[c].got IN
    \A how \in {"sync", "chain"}, revs \in Lists(atts) :
      LET C == Counted(atts, revs, how) IN
      /\ \A i \in C : Backed(atts[i])
      /\ \A i, j \in C :
           \/ atts[i].id = atts[j].id
           \/ atts[i].settlement = atts[j].settlement /\ atts[i].settlement \notin OnChain
           => i = j

(* ONLY THE ISSUER REVOKES (attest.ts:168).  What verifies and does not    *)
(* count was revoked by its issuer, or another one of its escrow counts;   *)
(* and what its issuer revoked does not count, unless a revocation by      *)
(* somebody else came after.                                               *)
RevocationIsOwn ==
  \A c \in Clients : Is(c, "done") =>
    LET atts == client[c].got IN
    \A how \in {"sync", "chain"}, revs \in Lists(atts) :
      LET C == Counted(atts, revs, how) IN
      \A i \in DOMAIN atts :
      LET own == {k \in DOMAIN revs : revs[k] = [attestation |-> atts[i], issued_by |-> atts[i].issued_by]}
      IN  /\ Verified(how, atts[i]) /\ i \notin C =>
               own # {} \/ \E j \in C : atts[j].id = atts[i].id
          /\ own # {} /\ i \in C =>
               \E k \in DOMAIN revs : revs[k].attestation = atts[i] /\ k \notin own

(* A WALK IS COMPLETE (client.ts:225: "a node cannot truncate its bad      *)
(* history into invisibility by paginating").  With any store a reader     *)
(* that reached the last page has all that was stored when it began,       *)
(* unless a page was an error or the store was lost.                       *)
WalkComplete ==
  \A c \in Clients : Is(c, "done") =>
    client[c].owed \subseteq {client[c].got[i] : i \in DOMAIN client[c].got}

(* A 304 IS TRUE (node.ts:236).  While the ETag a client holds is the      *)
(* node's, what it keeps is what it would get, also when attestations were *)
(* stored between the summary and the page, and with timestamps of any     *)
(* order; a node that lost its store may repeat an ETag.                   *)
NotModifiedIsTrue ==
  \A c \in Clients : Matches(c) /\ (store = "memory" => client[c].epoch = epoch) =>
    client[c].content = Content(client[c].of)

=============================================================================
