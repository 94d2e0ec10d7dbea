# Aleph protocol: a TLA+ verification development

Aleph lets an agent find a node that offers a capability, pay it, invoke it, and
leave an attestation that the payment backs. The repository is a TypeScript
monorepo with one Solidity contract. This directory holds TLA+ modules of its
core, the TLC runs that check them on small instances and TLAPS proofs of their
main properties for every value of the constants.

Paths below are relative to the repository; `core/src/...` is short for
`packages/core/src/...`, and so for the other packages.

## The system

| part | state it keeps | operations | talks to |
|---|---|---|---|
| escrow contract, `contracts/src/AlephEscrow.sol` | escrow by id (status, payer, payee, amount, deadline), the ReentrancyGuard flag | `lock`, `release`, `refund`, `getEscrow` | the ERC-20 token, which may call back |
| reference rail, `core/src/settle/rail.ts` | balances, escrows, a sequence number | `deposit`, `lock`, `release`, `refund`, `verifyLock`, signed records | client and node in one process |
| EVM rail, `settle-evm/src` | none of its own: the chain, the token's allowance | `lockEscrow`, `releaseEscrow`, `refundEscrow`, `verifyLock`, `verify` | the contract, through an RPC node |
| replay guard, `core/src/replay.ts`, nonce stores in `store/src` | nonces by sender, with a timestamp | `verifyReceived`, `checkAndRecord`, `gc` | clock, database |
| node, `node/src/node.ts` | nonce store, reputation store, rate limiters | `POST /aleph`, `POST /attest`, `GET /reputation`, `/summary`, `/manifest` | rail, stores |
| client, `client/src` | none: each call is one `async` function | `invoke`, `attest`, `resolve`, `resolveRanked`, `fetchReputation`, `compose` | rail, node, registry |
| registry, `registry/src/registry.ts`, registry stores | manifests and a numbered feed, a resolve cache, a cursor for each peer | `/register`, `/since`, `RESOLVE`, gossip, `reconcile` | peers |
| reputation stores, trust kernel, `core/src/trust` | attestations, seen settlements | insert once per settlement, pages, summary; `computeTrust`, revocation | node, client |
| grants, `core/src/grant.ts` | none | `createGrant`, `createSubGrant`, `verifyGrant` | node |
| keys, `core/src/keyring.ts`, `core/src/resolver.ts` | key epochs; did:web documents for five minutes | `rotate`, `keyAt`; resolve | HTTP |
| transport, `transport/src` | token buckets, metrics | `allow`, body limits, logs | every server |
| MCP bridge, CLI, scaffolding, Python SDK | configuration | wrappers of the client | client |

A paid invocation crosses most of it: the client **locks** (rail, then contract),
signs and **sends** an INVOKE; the node passes it through the **replay guard** and its
checks, **reads the lock**, runs the handler and signs a RECEIPT; the client
verifies it and **releases** or **refunds**.

What is hard: JavaScript interleaves requests at every `await`; a database
nonce store answers a round trip after the timestamp was checked; requests and
answers get lost or repeated, and both sides die and restart; a transaction is estimated, sent, mined
and waited for at four different times; the token runs foreign code in the middle of
a contract call; clocks are set back; registries hand each other manifests with
no version. `PROJECT.json` lists these hazards by line, with the properties that cover them.

## The plan

In order of importance:

1. `EscrowPromise`, `AlephEscrow`: the money on chain. Done, proved.
2. `SettlementRail`: the money off chain, against the same promise. Done, proved.
3. `Replay`: an envelope counts once. Done, proved.
4. `FairExchange`, `Invoke`: client, network, node and rail composed. Done, proved.
5. `EvmRail`: the adapter between `invoke` and the contract. Done, proved.
6. `Registry`: feeds and their revisions, gossip and anti-entropy over the
   in-memory and the SQLite store. `Discovery`: RESOLVE, its pages and its cache,
   over all three stores. Done, proved. Left: the feed over PostgreSQL, where a
   revision is drawn before its row is written; a peer in memory that restarts;
   the capabilities a manifest dropped, which a database keeps (`memory.ts:1`
   calls the in-memory store a faithful stand-in); a node that moves to
   the front during a walk and is missed by it (`spec/REGISTRY.md:36`, "stable under writes").
7. `Reputation`: one attestation per settlement in the stores, pages and ETags
   while attestations arrive, what a client that walks the pages collects and
   counts. Done, proved. Left: what a counted attestation weighs, which is real arithmetic.
8. `Grants`: attenuation along a chain and its depth. `Limiter`: the bound of the
   rate limiter. Done, proved. Left: the windows of the keyring and the
   did:web cache, which nothing in the repository calls yet.
9. `Errand`: composition and the MCP bridge over invocations. Done, proved.

## The modules

```
AlephEscrow  --implements-->  EscrowPromise  <--implements--  SettlementRail
                                   |                                |
                              (INSTANCE)                       (INSTANCE)
                                   v                                v
                                EvmRail                          Invoke --implements--> FairExchange
Replay: the nonce store that Invoke's `nonces` abstracts
Registry: the federation a client resolves from
Discovery: one registry of it, and the client that resolves
Errand: what a tool or a composition makes of the invocations of Invoke
Grants, Limiter: what stands in front of the work of a node
Reputation: what becomes of the records of a settlement
```

**`EscrowPromise`** is the `PayerRail` seam of `core/src/settle/payments.ts` as
an abstract specification: a deal is opened once, with money the payer has, and
closed once, paying its whole amount to the payee or back to the payer. Where the money is a
token its holders also move it without the rail (`Transfer`, `TokenSpec`); that is what the contract implements.

**`Escrows`** is what contract and reference rail both keep: escrows by id, each with its terms.

**`AlephEscrow`** is the contract with its token. A contract call is not one
step: `Lock`, `Release` and `Refund` do what the Solidity functions do before
they call the token and push a frame; `TokenMoves` or `TokenRefuses` is the
token's answer; `Return` ends the call. Between any two of them any address
may call the contract again (a hook), which `NonReentrant` refuses: nested frames are possible in the
model, up to `MaxDepth`, and it is a theorem that none happens. A revert restores the
snapshot the call took. `Blocked` are addresses that the token will not pay or
whose hook reverts. `block.timestamp` (`now`) stands still during a transaction. The payee is any
address, the contract's own included (`AlephEscrow.sol:66` asks nothing of it), and a holder may `Send` it tokens:
`stray` is a history variable that counts what lies in the contract and is owed to nobody.

**`SettlementRail`** is the in-memory rail: one action for each method, as each
runs without yielding; a call that throws or answers `{ ok: false }` changes nothing. Amounts are whole numbers; the code's
are doubles. A negative amount is refused and 0 is locked, as in the code (`rail.ts:108`); the contract
refuses 0. A signed record is a member of `records`.

**`Replay`** is `verifyReceived` with each of the three nonce stores, one of which
`Init` chooses (`store`). In memory
and with SQLite the check of the timestamp and the look at the nonce are one turn
(`CheckAndRecord`, `RunInsert`); with PostgreSQL they are apart (`Ask`, then `Insert`, or
`InsertUnheard` / `InsertLost` when the connection breaks after or before the
row is written). `InsertThrows` is SQLite's catch-all. `SetBack` sets the system clock back, up
to `MaxBack` behind its peak. A database store drops no nonce: nothing in the
program calls its `gc`.

**`Invoke`** is `invoke` of the client and `POST /aleph` of the node, cut at their
`await`s, over an instance of `SettlementRail`. Requests are copies, so that
the network can repeat one. The checks of the handler are in the order of the code: the
nonce is consumed first (`FirstSeen`), then what can refuse without
looking at the payment (`Refuse`, for any of its reasons), then the lock is read
(`VerifyLock`), then the handler runs (`Act`: it is synchronous, so running it
and answering are one step). `TurnAway` is an answer that is no receipt: the
per-IP limit, a timestamp outside the window, an exception in the nonce store. The nonce
store is a set for each node, which is what `Replay` shows of a persistent
store. The client does not compare the receipt's `invoke_ref` with its own request; in
the model a receipt answers the request that carried it, as HTTP makes it. What each call
offers (`payEur`) is chosen in `Init`; `faulty` is a history variable that a fault sets.

**`FairExchange`** is what that composition promises.

**`EvmRail`** is the agent's calls over the chain. The contract is used through
`EscrowPromise`, which `EscrowProofs` proves it implements, plus its
deadline and the token's allowance. A transaction is sent (`Submit`: estimated first, and the estimate throws
if it would revert) and executed when it is mined (`Mine`), against the chain as it is then;
`Approved`, `Locked` and `Settled` are the returns of
`waitForTransactionReceipt`, which the code takes for success whatever the status;
`TimeOut` is that wait giving up. `overlapped` is a history variable: a call began beside
another, or a wait was given up with its transaction still in the mempool. `Decline` is a payee that refunds, `Reclaim` the owner who
takes the money back by hand after the deadline.

**`Registry`** is any number of registries, each with its store, its cursors and its
feed (`registry.ts` over `store/src/memory.ts` or `sqlite.ts`, whose upserts run without
yielding). A manifest carries no version of itself: the versions in the model
number what a node signed. `Sign` is a node that submits a manifest, as `aleph node` does;
`Register` handles a POST of it, gossip of another registry included; a post
stays in `posts` while it travels and while the handler waits for `fetchSummary`, so
that posts overtake each other. A reconcile visits its peers in turn; a visit is
`Ask` (the cursor is read), `Answer` (the peer's page, oldest first, at most `Limit`)
or `NoAnswer`, and a `Take` for each change, so that
everything else can happen between; visits may overlap, as the timer does not wait
for the reconcile before. That a manifest verifies is taken as given.
`Restart` loses the cursors and, in memory, the store. `taken` is a history variable.

**`Discovery`** is one registry as the clients that resolve see it
(`registry.ts` over each of the three stores, one of which `Init` chooses). There is one capability; of a
node the store has the revision of its row and a price, numbered from 1, in its capability row. The
stores in memory and over SQLite return settled promises, whose continuations run in
the order they became due: an upsert and the invalidation after it are one
step (`Register`), and so are a query and the fill of the cache (`Resolve`). With PostgreSQL each statement is
a step: `Draw`, `WriteRow`, `WriteCapability`, `Answered`, and for a RESOLVE `Ask`,
`Execute`, `Fill`. `UpsertThrows` ends a registration at any of its statements,
with its rows written or not. A walk is a client that calls `resolve` with
the cursor it was given until there is none. `Refused` is an answer without
results, which `resolve` does not tell from an empty last page. Databases keep the
capability rows a manifest dropped (`Kept`). `excused`, `settled`, `recent` and
`firsts` are history variables. The statement of SQLite that fails is not modelled, nor `MAX(rev)`
of an empty table being counted from 1 again, as no node is ever deleted.

**`Reputation`** is the attestations of one node, with each of the three stores and with the
synchronous verifier or the one that reads the chain (`Init` chooses). `Settle` is
the rail; an attestation may name any settlement and say anything of it. A record is checked with the key of the
rail it names itself (`verifySettlement`): a rail of the program signs what it did, but anyone can make up a rail
that signs what it never did, and its settlements are `MadeUp`. A record has one `escrowId` and two DIDs, except on chain:
there `escrowId` is hex that the attester writes, in either case, and a party is an address that
several did:pkh DIDs spell (`Terms`). Stores and score compare what is written. With the synchronous verifier and a store that does not wait `POST /attest` is one
step (`Attest`); otherwise `Verify` and `Insert`, and with PostgreSQL `Draw` and `Commit`,
as its sequence is drawn before the row is visible: rows appear out of the
order of their numbers. A reader is a client that follows the
pages (`fetchReputation`, `Fetch`; `Refused` is an error answer, `Rejected` a fetch that throws) and scores what it got
with the operators of `computeTrust`: `Standing`, `Counted`. Another keeps
an answer under its ETag: `Ask` for the stores that answer at once, `AskSummary` and `ReadPage` for PostgreSQL,
where attestations may be stored in between. Ratings and times are small sets, and the
rating 2 in the run is one that is out of range. `owed` and `epoch` are history variables.

**`Grants`** is one chain of grants, made by `createGrant` and `createSubGrant` or by anything else that holds a
key (`OtherGrant`), and the gate of `POST /aleph` in front of it. As a
sub-grant carries its parent, what a node is shown is a chain; `Gate` takes any
part of it that starts at the root. A priced capability waits for `verifyLock` between the gate and the work,
and the grant may expire meanwhile. Of the entries of a scope with the same capability only the
first is ever read, so a scope is a function. Nothing validates a grant: `max_eur` and `not_after` are numbers, or
whatever else JSON can say (`Odd`), which JavaScript compares as `OddAbove` and `OddReached` say: two constants
the proofs leave open, empty in the runs, as they are for an ordinary word. `foreign` is a history variable: links that the library, with the
keys of their holders, would not have made.

**`Limiter`** is the token bucket with the requests that ask it: once for the
address before the body is read, once for the sender after the nonce store. Tokens are fractions in the code and whole units here, as all
that matters is comparing them. The window of `RateBounded` starts anywhere (`Watch`). The registry's
limiter is the same with one key for each request.

**`Errand`** is the tool `aleph_invoke` and `compose`, over invocations that are a
lock, an answer and a settlement or nothing (`Invoke` has what is inside). Nodes are redeployed (`Deploy`), and `fetchManifest` may be given any manifest a node
ever signed. `ToolThrows` and `StepThrows` are the exceptions of every `await`.
`receipts` are the receipts `compose` holds; `paid` and `held` are what has left
the caller and what is in escrow.

`MC*.tla` give the small instances, `*Proofs.tla` the proofs. Three of the latter hold the proofs of two
modules each: `EscrowProofs` those of contract and reference rail, which rest on the same lemmas about sums, `GuardProofs`
those of `Replay` and `Limiter`, `MandateProofs` those of `Grants` and `Errand`. Names that both
modules would have are prefixed in one of them (`ContractSpec`, `LimiterTypeOK`, `GrantsInit`).

## The runs

| run | instance | shows |
|---|---|---|
| `escrow` | 2 escrows, payer, payee, an address the token blocks, the contract as payee and sent to, amounts 0..2, deadlines 0 and 2, nesting 2, fair | `OneCall`, `Solvent`, `SettlementAuthorised`, `ContractImplementsPromise`, `NeverStuck` |
| `rail` | 2 parties, 3 escrows, 3 of credit | `Conserved`, `RecordsTrue`, `ImplementsPromise` |
| `replay` | each store; 2 senders sharing a nonce, one using it twice further apart than the window; 2 requests waiting | `AtMostOnce`, `RefusedWasSeen` |
| `invoke` | a call of a priced and a call of a free node, each offering 0..2, 2 copies each, all faults, fair | `RunsOnce`, `PaidInFull`, `IsFairExchange`, `LockedIsSettled` |
| `evm` | 2 calls to 2 nodes, concurrent or not, timeouts | `PaidOnDelivery`, `ServedIsPayable`, `AttestedIsPaid`, `LoneLockIsReal` |
| `registry` | 2 registries that are peers, one over SQLite, one in memory; 2 nodes, pages of one, a restart, fair | `NothingMissed`, `NodesSpread` |
| `reputation` | each store and verifier; 3 payments: one of a reference rail, one of a made-up rail with the same escrow id, one on chain with an id of two spellings; 2 attesters, 2 requests, one reader, pages of one, 2 rows, a restart, 2 revocations | `OneEach`, `TrustIsEarned`, `RevocationIsOwn`, `WalkComplete`, `NotModifiedIsTrue` |
| `grants` | 2 DIDs, a depth of 1, chains of up to 3 links, one of them foreign, limits and times 1, 2 or no number | `AuthorityHolds`, `MadeIsAccepted` |
| `limiter` | one address, 2 senders, 2 requests, buckets of 2 tokens of 2 units, a refill of 1 | `RateBounded`, `NotShutOut` |
| `errand` | one node with 3 sets of terms, a call of the tool, 2 compositions of 2 steps, a redeployment | `AsAgreed`, `PaysForDelivered`, `AuditedIsWhole` |
| `discovery` | each store; 2 nodes, pages of one, a client, 2 registrations at once, 3 in all | `WalkComplete`, `StalenessBounded`, `FirstSeenOnce` |
| `registry_idempotent` | `registry` with two manifests for each node | **violated**: `PullsIdempotent` |

`escrow`, `rail`, `registry`, `discovery` and `reputation` also check their module's
type invariant (`ContractTypeOK` or `TypeOK`). The others' document the types of their variables; those
of `Replay`, `Limiter`, `EvmRail`, `Grants` and `Errand` are proved.

Each property of a passing run has a mutant in `PROJECT.json`: a plausible bug
in the code (a dropped guard, a refund to the wrong party, a nonce collected too
early) that breaks it. One of them, `FetchFailsRefunded`, is a tempting
change of the client: refunding when no answer came breaks fair
exchange, because the node may have done the work.

### What the code does otherwise than it says

`registry_idempotent` is the run of a disagreement: `spec/REGISTRY.md:50` says a peer "upserts idempotently". A
manifest that a registry gossiped comes back from the peer's feed, under the peer's revision,
and replaces the update that its node has registered in between: the update is lost.

The models show more of them, which no run states as a property of its own:

- `grant.ts:79` says "a sub-grant cannot widen a cap". A sub-grant with a `max_eur` that is
  no number is made and accepted below any cap, and lets any price through: both comparisons (`grant.ts:87`, `:138`)
  are with NaN, and false. In the same way a `not_after` that is no number never expires.
  `AuthorityHolds` says what is left: who passed what on to whom, and the caps that have no such limit below them.
- `node.ts:258` says that an attestation is stored "only if it is backed by a valid,
  released settlement to this node". Nothing asks which rails a node knows, so a record of a rail that moved no money
  will do. `OneEach` and `TrustIsEarned` say "was paid for, or a made-up rail vouches for it".
- `attest.ts:254` says "one payment backs at most one attestation". On chain an id that is written
  in lower and in upper case is one escrow and two attestations (`attest.ts:320`, the stores alike).
  `TrustIsEarned` promises one for each spelling.
- `attest.ts:235` says that what is counted is "non-revoked". A revocation by somebody else takes no
  attestation away, but one that comes later in the list hides the issuer's own,
  as the list becomes a map by attestation (`attest.ts:308`); `RevocationIsOwn` says exactly this.
- `client.ts:181` says "On failure (or no delivery), refund
  instead". When the fetch rejects or the receipt does not verify, `invoke`
  throws before it settles (`Invoke.FetchFails`, `VerifyFails`) and does not give the caller the escrow's reference.
- The status of a transaction's receipt is not looked at (`EvmRail.Settled`), so a reverted release gives a record that says
  `released`, which `payments.ts:39` calls "authentic by construction". `AttestedIsPaid` shows that the chain-reading verifier
  does not believe it.
- On chain the refund after a failure is refused by the contract until the
  deadline, and nothing asks again; `spec/SETTLEMENT.md:39` says the agent calls `refundEscrow` on failure.
- `spec/REGISTRY.md:62` says that "correctness never lags a registration", as
  the cache is invalidated on every write. With PostgreSQL a query that was executed before the write can be
  answered after the invalidation, and `cachedResolve` caches its page (`Discovery.Fill`). What holds
  is `StalenessBounded`: the lifetime of an entry and the time of the query.
- `fetchReputation` takes an error answer for an empty last page, while `client.ts:225`
  speaks of the full evidence set; `WalkComplete` leaves such walks out.
- Each reference rail numbers its escrows from 1, and the stores tell settlements
  apart by that id. Of two attestations for different settlements of two rails the second is dropped, and `/attest` answers `ok` all the same.
- The contract takes itself for a payee, and tokens sent to it without a call: nobody can get either back. `Solvent` is
  exact with them (`stray`).
- `createSubGrant` does not count the links above (`grant.ts:55`), though a sub-grant is "never
  deeper than MAX_DELEGATION_DEPTH" (`grant.ts:8`): what it makes too deep is refused by `verifyGrant`.
- The limit of a grant is compared with the node's price; the escrow may hold more (`node.ts:322`).
  And it is compared before `verifyLock` is awaited, as is the expiry: work may be done after it.
- The tool reports `attested: true` whatever `/attest` answered, and `paid` with the price when the payment
  was refunded (`build.ts:179`, `:188`). A capability that is missing from the manifest is invoked
  at price 0 and unconfirmed.
- A composition that throws returns nothing of the steps it has paid. A chain of receipts whose
  first ones are cut off is accepted: nothing is asked of the first.
- A node in memory that restarts may repeat an ETag, for other content.

Other conditions in properties stand for something the code does, and the hazard they leave out is one that no
property covers. `RefusedWasSeen` leaves SQLite out, whose store
reports every error of the nonce INSERT as a replay (`sqlite.ts:260`). `LoneLockIsReal` leaves out calls
that overlap: two of them read one allowance, one `lock` reverts when mined, and
`lockEscrow` still reports `ok`. Walks with a refused page are excused, as
`resolve` takes an error for an empty page. `WalkComplete` of `Reputation` owes a reader what was stored when
its walk began: a row of PostgreSQL that commits later, behind the cursor, is found by the next walk.

### Bounds

Two escrows, calls or senders are what it takes for one to be paid with the other's
money or refused with the other's nonce; a third would be a copy of one of
them, as no operation relates three. Amounts 0..2 have
zero (which the contract refuses and the reference rail locks), an amount below a price and one that fits. The clock of
`Replay` runs to three windows and a bit, so that nonces are dropped and their
envelopes tried afterwards; the clocks of `AlephEscrow` and `EvmRail` reach the
deadline and pass it. Two copies of a request are the one and its repetition. `invoke` lets a call
offer less than, exactly or more than a price.
Nesting 2 is enough for a re-entrant call: a third would need a second.

In `Registry` two registries give each other their feeds, so that every pull has
what the other took before. Each upsert gives an entry a new revision, at the end of the feed, and is news for the
peer, so two peers hand a manifest to each other for ever. In the code an entry can move ahead of its reader's
cursor without end, and `NodesSpread` is claimed of an entry to which that does not happen for ever (`Disturbs`). In the run
`MaxRev` ends it: a registry
at the bound asks only a peer that knows a node it does not know. A page of one entry cuts a feed of two. Reconciles of one
registry that overlap are in the proof, not in the run.

In `Discovery` two nodes and pages of one make a walk of two pages; the third
registration is the one that comes in the middle of it. An entry lives for one tick and a query takes up
to one, of two in all. `MaxQuery` is more than a bound of the run: nothing in the code limits how long a query
takes, and `StalenessBounded` is as good as the limit the database keeps. The run has one
price and one budget: a node that does not match is one that does not offer. Swapping the nodes, or
the registrations, changes nothing (`SYMMETRY`).

In `Reputation` the shared escrow id makes two requests race for one row and two
settlements look like one, and the two spellings make one look like two; two rows, which with pages of one make two pages and can
commit in either order; two revocations have the issuer's own and another's
in both orders. One reader is enough, as readers touch nothing. In `Grants` a depth of 1 allows two links, the third is one too deep; the foreign
link may be anywhere, a limit and a time above, below and at another occur, each beside one that is no number, and
the DIDs are symmetric. In `Limiter` the clock goes to 4 and back by
2, which empties and fills a bucket of 4 units with one each step. `MaxSpent` is the most
a bucket can allow in all that time. In `Errand` the terms differ in price, risk and whether the capability is there
at all; two compositions mix up their receipts if anything does.

`CHECK_DEADLOCK FALSE` stands where the system may stop: escrow ids and
credit run out, a clock reaches its bound, every call has ended, every feed is read up to the bound. The runs
of `Replay`, `Discovery` and `Limiter` check for deadlock.

### Fairness

- `AlephEscrow`: a call that began ends (weak fairness of the token and
  return steps: a transaction is finite); time passes, however full the blocks are (strong, since a
  tick waits for the transaction); a payer's refund that is possible again and again is
  included at some time (strong: no censorship). The run assumes the payer asks.
- `Invoke`: an event loop runs every callback that is due: weak fairness of each
  agent's and each request's steps. Faults and deposits are not fair. An agent that dies or
  a request that is lost settles nothing, so `LockedIsSettled` is claimed of behaviours without a fault.
- `Registry`: `reconcileIntervalMs` is set, as the CLI does when there are peers; each
  peer is asked again and again (strong, as the peers take turns) and one that
  is asked again and again answers at some time (strong); a loop over a page ends
  (weak). Nothing is assumed of posts: gossip may always be lost. What fairness cannot give, `NodesSpread` excepts: an
  entry that is renumbered, or a registry that restarts, again and again for ever.

The other modules state safety only, and no fairness.

## The proofs

| theorem | module | says |
|---|---|---|
| `ContractTypeCorrect`, `ReentrancyIsHarmless`, `SettlementIsAuthorised`, `ContractIsSolvent`, `ContractImplements` | `EscrowProofs` | `AlephEscrow`: type invariant, `OneCall`, `SettlementAuthorised`, `Solvent`, refinement of `EscrowPromise` |
| `RailTypeCorrect`, `RecordsStayTrue`, `CreditIsConserved`, `RailImplements` | `EscrowProofs` | `SettlementRail`: type invariant, `RecordsTrue`, `Conserved`, refinement of `EscrowPromise` |
| `TypeCorrect`, `ReplayIsCaught`, `ReplayIsReal` | `GuardProofs` | `Replay`: type invariant, `AtMostOnce`, `RefusedWasSeen` |
| `LimiterTypeCorrect`, `RateIsBounded`, `CallersAreNotShutOut` | `GuardProofs` | `Limiter`: type invariant, `RateBounded`, `NotShutOut` |
| `GrantsTypeCorrect`, `AuthorityIsTraced`, `MadeChainsAreAccepted` | `MandateProofs` | `Grants`: type invariant, `AuthorityHolds`, `MadeIsAccepted` |
| `ErrandTypeCorrect`, `CallersAreNotSurprised`, `DeliveredIsPaid`, `AuditedListsAreWhole`, `LongListsAreWhole` | `MandateProofs` | `Errand`: type invariant, `AsAgreed`, `PaysForDelivered`, `AuditedIsWhole`, and the last for lists of any length |
| `HandlerRunsOnce`, `NodeIsPaidInFull`, `Fairness` | `InvokeProofs` | `RunsOnce`, `PaidInFull`, refinement of `FairExchange`, where nonces persist |
| `TypeCorrect`, `MoneyFollowsDelivery`, `WorkIsCovered`, `AttestationsArePaidFor`, `LoneLocksAreReal` | `EvmRailProofs` | type invariant, `PaidOnDelivery`, `ServedIsPayable`, `AttestedIsPaid`, `LoneLockIsReal` |
| `TypeCorrect`, `FeedHasNoGaps` | `RegistryProofs` | type invariant, `NothingMissed` |
| `TypeCorrect`, `WalksAreComplete`, `StalenessIsBounded`, `FirstSeenIsOnce` | `DiscoveryProofs` | type invariant, `WalkComplete`, `StalenessBounded`, `FirstSeenOnce` |
| `TypeCorrect`, `OneEachHolds`, `TrustIsEarnedHolds`, `RevocationIsOwnHolds`, `WalkCompleteHolds`, `NotModifiedIsTrueHolds` | `ReputationProofs` | type invariant, `OneEach`, `TrustIsEarned`, `RevocationIsOwn`, `WalkComplete`, `NotModifiedIsTrue` |

The assumptions are the modules' `ASSUME`s, on the constants, which TLC
evaluates in every run, and the ones a theorem names. The sums ask for finitely many escrow ids and
parties: the contract's ids are 32 bytes, and the parties of a rail are the DIDs that ever used it.

- **`AlephEscrow`**: `ContractTypeOK /\ OneCall` is inductive. `OneCall` carries `CallOK`:
  what the one call under way has done to the contract and the token relative to the
  snapshot it took. That is what the refinement needs: while a call is under way the
  abstract state is its snapshot, and the `Return` of it is the abstract step.
- **`Solvent`, `Conserved`**: both are about `SumFunction`, of which the proofs need that it is a whole number, that
  it is 0 if all is 0, and that changing one entry changes it by the difference (`SumOfUpdate`). These are proved by induction
  over the subsets of a finite set; the induction is proved too, from the pigeonhole principle, as the library's takes
  an operator for a parameter. A call under way owes for its escrow what it owed before until the token has moved the money, and
  from then on what the book says, so that `Owed`, `stray` and the contract's balance change in the same step, by the same
  amount; a payment of the contract to itself moves the amount from `Owed` to `stray`.
- **`SettlementRail`**: escrows beyond `seq` do not exist, so an id is opened
  once; a record names an escrow closed with that status, and closed escrows do not change.
- **`Replay`**: a nonce of an accepted envelope is either still held or its
  timestamp is so far behind `peak - Window` that, as `Skew + MaxBack <= Window`,
  the skew check refuses it at any time the clock can still show. The code's windows are
  300 s and 600 s: the clock may be set back by up to 300 s.
- **`Limiter`**: `RateBounded` says nothing of what is left in a bucket. `SpentAndLeft` does: what was allowed in the
  window and what is left are together at most a full bucket and what the clock brought in. For `NotShutOut`, a clock that is set
  back takes from a bucket at most what it would have brought in.
- **`Grants`**: `verifyGrant` compares neighbours; that the last link's scope and expiry are within
  those of every link above is induction up the chain (`NarrowsUp`), for a limit or a time as long as all
  below it are numbers, as only numbers are ordered by the code's comparisons. What was let through stays so while the chain grows, as
  links are only appended. `MadeIsAccepted` needs that, as long as the library makes the links, each
  narrows the one above (`MadeAsTheLibraryDoes`): so the last is the first to expire.
- **`Errand`**: the inductive invariant has a part for each invocation, tool, composition and receipt. The receipts of a
  composition increase in number and each names the one before; a receipt that was issued is kept by the composition that
  asked for it, or was the answer to its last step. As no two receipts of a composition name the same one before, a list the audit
  accepts goes, from wherever it starts, step by step along one composition: induction along the list.
- **`Invoke`**: an agent's call and the copies of its request are related: at most one copy is past the
  nonce check, a copy that acts has a lock that was good, that lock is closed
  by its own call only, and by a refund only when the receipt says that
  nothing was delivered.
- **`EvmRail`**: a transaction in flight is of the kind its call's stage says and a
  release is sent only after a success; so one that is mined late is still of
  a call that was served. `LoneLockIsReal` needs more: while nothing overlaps one call is
  under way, its transaction is the only one in the mempool, and a lock in flight is still covered.
- **`Registry`**: a page is a piece of the feed without gaps. Whatever the peer has at or
  below the revision of an entry of a page was taken or is in what is left of the
  page. It stays so because a peer that does not forget gives each upsert a
  revision above all before, so what it updates moves above every cursor and page.

- **`Discovery`**: a page is right about a node `d` if it has `d`, as it is, exactly when
  `d`'s revision is between the page's cursor and the next; pages that are
  right about `d` put together are a walk that is right about `d`. An entry is
  right about what was not written for `Ttl` less its age, a page on its way for `Ttl + MaxQuery` less
  the age of its query: when it is cached the query took up to `MaxQuery` of that. Revisions are
  unique because a drawn one is in no row and in no other hand.
- **`Reputation`**: a payment that was released stays so, so what was verified stays
  paid for (or vouched for by a made-up rail), in a row, in a request on its way and in what a reader got. What a reader is owed it has or is in a row
  after its cursor; a page takes the least of those, whatever commits behind the cursor
  was not owed; the last page takes them all. `RevocationIsOwn` needs that the first of the
  attestations with an escrow id is counted, and that a list of revocations has a last one for an
  attestation: least and greatest members, which are shown to exist by counting. The ETag
  counts the rows; rows are only added, so a node with as many rows as then has the
  rows of then, and what was read after the summary is the same while the count is.

Every invariant of a passing run is proved, and every refinement. Left to TLC are the liveness properties (`NeverStuck`,
`LockedIsSettled`, `NodesSpread`), which need fairness and so `ENABLED`, which the prover does not handle.

## What is not modelled

Signatures, canonical JSON, DIDs, schemas and complexity are pure functions; the
models take their verdict (`Wellformed`, a receipt or an "error"). Events,
logs, metrics and traces are output. Token units and credit are whole numbers without a
width; the contract's arithmetic is checked by Solidity and adds and subtracts nothing itself. Fee-on-transfer tokens
are outside: the contract's promise is for tokens that move the amount asked for.
A second INVOKE with the reference of another's escrow is not sent by the client,
and not modelled. PostgreSQL's feed is in the plan above. The settlement stores are handed to a node by the CLI
and used by nothing. What a counted attestation weighs is a logarithm and an exponential, and the order of
`resolveRanked` depends on it: the tool of `Errand` takes any node. The keyring and the did:web resolver are called by
no package. The manifest endpoint's ETag is a signature, and so is true as far as signatures are. CLI, scaffolding and the Python SDK wrap what is modelled.
