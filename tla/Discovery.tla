----------------------------- MODULE Discovery -----------------------------
(***************************************************************************)
(* packages/registry: RESOLVE, its cache and the upsert it races with      *)
(* (registry.ts over store/src/memory.ts, sqlite.ts or postgres.ts).       *)
(*                                                                         *)
(* One capability: of a node the store holds the revision of its row and   *)
(* the price in its capability row.  A client walks the pages of a RESOLVE *)
(* from nextCursor to nextCursor.  The calls of the stores in memory and   *)
(* over SQLite do not wait: with them an upsert and the invalidation after *)
(* it are one step, and so are a query and the fill of the cache, as       *)
(* promise continuations run in the order they became due.  PostgreSQL     *)
(* runs each statement on its own.                                         *)
(***************************************************************************)
EXTENDS Integers, FiniteSets

CONSTANTS
  Nodes,        \* DIDs
  Prices,       \* of the capability, above 0; 0 is a manifest without it
  Budgets,      \* maxPrice of the clients' filters
  Handlers,     \* registrations that can be under way with PostgreSQL
  Walkers,      \* clients that page through RESOLVE
  Limit,        \* page size
  Ttl,          \* resolveCacheTtlMs
  MaxQuery,     \* bound: how long PostgreSQL takes to answer a query
  MaxTime,      \* bound
  MaxSeq        \* bound: upserts

ASSUME DiscoveryAssumption ==
  /\ IsFiniteSet(Nodes)
  /\ Prices \subseteq Nat \ {0} /\ Budgets \subseteq Nat
  /\ Limit \in Nat \ {0}
  /\ Ttl \in Nat /\ MaxQuery \in Nat
  /\ MaxTime \in Nat /\ MaxSeq \in Nat

VARIABLES
  store,        \* the driver: "memory", "sqlite" or "postgres"
  rev,          \* of each node's row, 0 if there is none
  price,        \* in each node's capability row, 0 if there is none
  seq,          \* the last revision given
  cache,        \* resolveCache
  handler,      \* what each registration is doing
  walk,         \* what each client is doing
  now,          \* Date.now
  recent,       \* history: how long each node's last write still counts as recent
  firsts        \* history: how often an upsert called the node first-seen

vars == <<store, rev, price, seq, cache, handler, walk, now, recent, firsts>>
rows == <<rev, price, seq>>
history == <<recent, firsts>>

Offers == Prices \cup {0}
Pointer == [node : Nodes, price : Nat, rev : Nat]
Page == [results : SUBSET Pointer, next : Nat]
Entry == [max : Budgets, cursor : Nat, at : Nat, page : Page]
NoPage == [results |-> {}, next |-> 0]

Idle == [pc |-> "idle"]
Upsert == [pc : {"drawn", "written", "finished"}, node : Nodes, price : Offers, rev : Nat, first : BOOLEAN]

(* History: excused are the nodes written, or being written, during the    *)
(* walk; settled are those that were written neither then nor recently.    *)
(* A walk that was refused excuses all and settles none.                   *)
Walk == [pc : {"next", "asked", "read", "done"}, max : Budgets, cursor : Nat, seen : SUBSET Pointer,
         page : Page, asked : Nat, excused : SUBSET Nodes, settled : SUBSET Nodes]

Current(d) == [node |-> d, price |-> price[d], rev |-> rev[d]]
Offering(d, max) == rev[d] > 0 /\ price[d] > 0 /\ price[d] <= max

Wants(u, pc) == walk[u] # Idle /\ walk[u].pc = pc
Sync == store # "postgres"
UnderWay(d) == \E h \in Handlers : handler[h] # Idle /\ handler[h].node = d

TypeOK ==
  /\ store \in {"memory", "sqlite", "postgres"}
  /\ rev \in [Nodes -> Nat] /\ price \in [Nodes -> Nat] /\ seq \in Nat
  /\ cache \subseteq Entry
  /\ handler \in [Handlers -> {Idle} \cup Upsert]
  /\ walk \in [Walkers -> {Idle} \cup Walk]
  /\ now \in Nat
  /\ recent \in [Nodes -> Nat] /\ firsts \in [Nodes -> Nat]
  /\ \A d \in Nodes : rev[d] <= seq
  /\ \A d, e \in Nodes : rev[d] = rev[e] /\ rev[d] > 0 => d = e
  /\ \A x, y \in cache : x.max = y.max /\ x.cursor = y.cursor => x = y
  /\ Sync => /\ \A h \in Handlers : handler[h] = Idle
             /\ \A u \in Walkers : ~Wants(u, "asked") /\ ~Wants(u, "read")

Init ==
  /\ store \in {"memory", "sqlite", "postgres"}
  /\ rev = [d \in Nodes |-> 0] /\ price = [d \in Nodes |-> 0] /\ seq = 0
  /\ cache = {}
  /\ handler = [h \in Handlers |-> Idle]
  /\ walk = [u \in Walkers |-> Idle]
  /\ now = 0
  /\ recent = [d \in Nodes |-> 0] /\ firsts = [d \in Nodes |-> 0]

----------------------------------------------------------------------------
(* Registration. *)

Written(d) ==
  /\ recent' = [recent EXCEPT ![d] = Ttl + MaxQuery]
  /\ walk' = [u \in Walkers |->
       IF walk[u] = Idle THEN Idle
       ELSE [walk[u] EXCEPT !.excused = @ \cup {d}, !.settled = @ \ {d}]]

(* SQLite writes the capability rows a manifest has and deletes none. *)
Kept(d, p) == IF p = 0 /\ store # "memory" THEN price[d] ELSE p

(* Mutant: the page stays in the cache. *)
RegisterKeepsCache(d, p) ==
  /\ Sync /\ seq < MaxSeq
  /\ seq' = seq + 1
  /\ rev' = [rev EXCEPT ![d] = seq + 1]
  /\ price' = [price EXCEPT ![d] = Kept(d, p)]
  /\ firsts' = IF rev[d] = 0 THEN [firsts EXCEPT ![d] = @ + 1] ELSE firsts
  /\ Written(d)
  /\ UNCHANGED <<store, cache, handler, now>>

(* upsertNode and invalidateCache, in memory and with SQLite. *)
Register(d, p) ==
  /\ Sync /\ seq < MaxSeq
  /\ seq' = seq + 1
  /\ rev' = [rev EXCEPT ![d] = seq + 1]
  /\ price' = [price EXCEPT ![d] = Kept(d, p)]
  /\ firsts' = IF rev[d] = 0 THEN [firsts EXCEPT ![d] = @ + 1] ELSE firsts
  /\ cache' = {}
  /\ Written(d)
  /\ UNCHANGED <<store, handler, now>>

(* PostgreSQL: first the revision is drawn from a sequence ... *)
Draw(h, d, p) ==
  /\ ~Sync /\ seq < MaxSeq
  /\ handler[h] = Idle
  /\ seq' = seq + 1
  /\ handler' = [handler EXCEPT ![h] =
       [pc |-> "drawn", node |-> d, price |-> p, rev |-> seq + 1, first |-> FALSE]]
  /\ UNCHANGED <<store, rev, price, cache, walk, now, history>>

(* Mutant: first-seen unless a registration of the node was answered. *)
WriteRowRaces(h) ==
  LET d == handler[h].node IN
  /\ handler[h] # Idle /\ handler[h].pc = "drawn"
  /\ rev' = [rev EXCEPT ![d] = handler[h].rev]
  /\ handler' = [handler EXCEPT ![h].first = (firsts[d] = 0),
                                ![h].pc = IF handler[h].price = 0 THEN "finished" ELSE "written"]
  /\ Written(d)
  /\ UNCHANGED <<store, price, seq, cache, now, firsts>>

(* ... then the row is inserted or updated, which tells first-seen ... *)
WriteRow(h) ==
  LET d == handler[h].node IN
  /\ handler[h] # Idle /\ handler[h].pc = "drawn"
  /\ rev' = [rev EXCEPT ![d] = handler[h].rev]
  /\ handler' = [handler EXCEPT ![h].first = (rev[d] = 0),
                                ![h].pc = IF handler[h].price = 0 THEN "finished" ELSE "written"]
  /\ Written(d)
  /\ UNCHANGED <<store, price, seq, cache, now, firsts>>

(* ... then the capability rows, and none is deleted. *)
WriteCapability(h) ==
  /\ handler[h] # Idle /\ handler[h].pc = "written"
  /\ price' = [price EXCEPT ![handler[h].node] = handler[h].price]
  /\ handler' = [handler EXCEPT ![h].pc = "finished"]
  /\ Written(handler[h].node)
  /\ UNCHANGED <<store, rev, seq, cache, now, firsts>>

(* upsertNode returned: the cache is cleared and the registration answered. *)
Answered(h) ==
  LET d == handler[h].node IN
  /\ handler[h] # Idle /\ handler[h].pc = "finished"
  /\ cache' = {}
  /\ firsts' = IF handler[h].first THEN [firsts EXCEPT ![d] = @ + 1] ELSE firsts
  /\ handler' = [handler EXCEPT ![h] = Idle]
  /\ UNCHANGED <<store, rows, walk, now, recent>>

(* A statement, or the answer to it, is lost: 500, and the cache stays. *)
UpsertThrows(h) ==
  /\ handler[h] # Idle
  /\ handler' = [handler EXCEPT ![h] = Idle]
  /\ UNCHANGED <<store, rows, cache, walk, now, recent, firsts>>

----------------------------------------------------------------------------
(* RESOLVE. *)

Matches(max, cursor) ==
  {d \in Nodes : Offering(d, max) /\ (cursor = 0 \/ rev[d] < cursor)}

Newer(max, cursor, d) == {e \in Matches(max, cursor) : rev[e] > rev[d]}

OnPage(max, cursor) ==
  {d \in Matches(max, cursor) : Cardinality(Newer(max, cursor, d)) < Limit}

Last(max, cursor) == {d \in OnPage(max, cursor) : \A e \in OnPage(max, cursor) : rev[d] <= rev[e]}

nextCursor(max, cursor) ==
  IF OnPage(max, cursor) = Matches(max, cursor) THEN {0} ELSE {rev[d] : d \in Last(max, cursor)}

(* The page (a set of one): newest first, at most Limit, and where to go on *)
(* if that was not all.                                                    *)
resolveByCapability(max, cursor) ==
  {[results |-> {Current(d) : d \in OnPage(max, cursor)}, next |-> n] : n \in nextCursor(max, cursor)}

(* Mutant: one tick too long. *)
FreshTooLong(max, cursor) ==
  {x \in cache : x.max = max /\ x.cursor = cursor /\ now - x.at <= Ttl}

Fresh(max, cursor) ==
  {x \in cache : x.max = max /\ x.cursor = cursor /\ now - x.at < Ttl}

(* Mutant: two requests that missed leave two entries. *)
FilledTwice(max, cursor, page) ==
  cache \cup {[max |-> max, cursor |-> cursor, at |-> now, page |-> page]}

Filled(max, cursor, page) ==
  {x \in cache : x.max # max \/ x.cursor # cursor}
    \cup {[max |-> max, cursor |-> cursor, at |-> now, page |-> page]}

(* The client takes a page and goes on, or has all. *)
Taken(u, page) ==
  walk' = [walk EXCEPT ![u].seen = @ \cup page.results,
                       ![u].cursor = page.next,
                       ![u].page = NoPage, ![u].asked = 0,
                       ![u].pc = IF page.next = 0 THEN "done" ELSE "next"]

Begin(u, max) ==
  /\ walk[u] = Idle \/ walk[u].pc = "done"
  /\ walk' = [walk EXCEPT ![u] =
       [pc |-> "next", max |-> max, cursor |-> 0, seen |-> {}, page |-> NoPage, asked |-> 0,
        excused |-> {d \in Nodes : UnderWay(d)},
        settled |-> {d \in Nodes : recent[d] = 0}]]
  /\ UNCHANGED <<store, rows, cache, handler, now, history>>

Hit(u) ==
  /\ Wants(u, "next")
  /\ \E x \in Fresh(walk[u].max, walk[u].cursor) : Taken(u, x.page)
  /\ UNCHANGED <<store, rows, cache, handler, now, history>>

(* A miss, in memory and with SQLite. *)
Resolve(u) ==
  /\ Sync /\ Wants(u, "next")
  /\ Fresh(walk[u].max, walk[u].cursor) = {}
  /\ \E page \in resolveByCapability(walk[u].max, walk[u].cursor) :
       Taken(u, page) /\ cache' = Filled(walk[u].max, walk[u].cursor, page)
  /\ UNCHANGED <<store, rows, handler, now, history>>

(* A miss with PostgreSQL: the query is sent, executed, and answered. *)
Ask(u) ==
  /\ ~Sync /\ Wants(u, "next")
  /\ Fresh(walk[u].max, walk[u].cursor) = {}
  /\ walk' = [walk EXCEPT ![u].pc = "asked", ![u].asked = now]
  /\ UNCHANGED <<store, rows, cache, handler, now, history>>

Execute(u) ==
  /\ Wants(u, "asked")
  /\ \E page \in resolveByCapability(walk[u].max, walk[u].cursor) :
       walk' = [walk EXCEPT ![u].pc = "read", ![u].page = page]
  /\ UNCHANGED <<store, rows, cache, handler, now, history>>

Fill(u) ==
  /\ Wants(u, "read")
  /\ Taken(u, walk[u].page)
  /\ cache' = Filled(walk[u].max, walk[u].cursor, walk[u].page)
  /\ UNCHANGED <<store, rows, handler, now, history>>

(* The connection breaks: resolve throws. *)
Lost(u) ==
  /\ walk[u] # Idle /\ walk[u].pc # "done"
  /\ walk' = [walk EXCEPT ![u] = Idle]
  /\ UNCHANGED <<store, rows, cache, handler, now, history>>

(* A limit, a replay, a query that throws: resolve takes the error for the *)
(* empty last page of the walk.                                            *)
Refused(u) ==
  /\ walk[u] # Idle /\ walk[u].pc # "done"
  /\ walk' = [walk EXCEPT ![u].pc = "done", ![u].cursor = 0, ![u].page = NoPage, ![u].asked = 0,
                          ![u].excused = Nodes, ![u].settled = {}]
  /\ UNCHANGED <<store, rows, cache, handler, now, history>>

----------------------------------------------------------------------------
Tick ==
  /\ now < MaxTime
  /\ \A u \in Walkers : Wants(u, "asked") \/ Wants(u, "read") => now < walk[u].asked + MaxQuery
  /\ now' = now + 1
  /\ recent' = [d \in Nodes |-> IF recent[d] = 0 THEN 0 ELSE recent[d] - 1]
  /\ UNCHANGED <<store, rows, cache, handler, walk, firsts>>

(* The process is gone with its cache, its requests and a store in memory. *)
Restart ==
  /\ cache' = {}
  /\ handler' = [h \in Handlers |-> Idle]
  /\ walk' = [u \in Walkers |-> Idle]
  /\ IF store = "memory"
     THEN /\ rev' = [d \in Nodes |-> 0] /\ price' = [d \in Nodes |-> 0] /\ seq' = 0
          /\ recent' = [d \in Nodes |-> 0] /\ firsts' = [d \in Nodes |-> 0]
     ELSE UNCHANGED <<rows, recent, firsts>>
  /\ UNCHANGED <<store, now>>

Next ==
  \/ \E d \in Nodes, p \in Offers :
       Register(d, p) \/ \E h \in Handlers : Draw(h, d, p)
  \/ \E h \in Handlers : WriteRow(h) \/ WriteCapability(h) \/ Answered(h) \/ UpsertThrows(h)
  \/ \E u \in Walkers, max \in Budgets : Begin(u, max)
  \/ \E u \in Walkers : Hit(u) \/ Resolve(u) \/ Ask(u) \/ Execute(u) \/ Fill(u) \/ Lost(u) \/ Refused(u)
  \/ Tick
  \/ Restart

Spec == Init /\ [][Next]_vars

----------------------------------------------------------------------------
(* Properties. *)

(* What the walk says of d is so. *)
Listed(u, d) ==
  {x \in walk[u].seen : x.node = d} = IF Offering(d, walk[u].max) THEN {Current(d)} ELSE {}

(* A WALK IS COMPLETE.  In memory and with SQLite, whoever follows          *)
(* nextCursor to the end has every node that offers the capability at the  *)
(* price, once and as it is, unless it was registered again meanwhile or   *)
(* a page was refused: what others left in the cache does no harm.         *)
WalkComplete ==
  \A u \in Walkers : Sync /\ Wants(u, "done") =>
    \A d \in Nodes \ walk[u].excused : Listed(u, d)

(* STALENESS IS BOUNDED (registry.ts:100).  With any store, what has not    *)
(* changed for the lifetime of a cache entry, and the time PostgreSQL       *)
(* takes, before a walk began is what the walk shows.                      *)
StalenessBounded ==
  \A u \in Walkers : Wants(u, "done") =>
    \A d \in walk[u].settled : Listed(u, d)

(* ONE FIRST-SEEN (postgres.ts:127: "exactly one of N concurrent upserts    *)
(* reports first-seen"): a node is gossiped at most once.                  *)
FirstSeenOnce == \A d \in Nodes : firsts[d] <= 1

=============================================================================
